---- MODULE Spec2Model ----
(***************************************************************************)
(* Model of the symbolic legal-document analyser                           *)
(* (maya_legal_intelligence/core.py, class SymbolicLegalIntelligence) and  *)
(* of the document processor built on it (analyzer.py, class               *)
(* LegalDocumentProcessor).                                                *)
(*                                                                         *)
(* Texts are TLA+ strings, i.e. sequences of characters; the character at  *)
(* position i of s is SubSeq(s, i, i).  Python's re module is modelled by  *)
(* a small backtracking matcher over regular-expression syntax trees, so   *)
(* that every pattern of the source is written down as it stands there.    *)
(***************************************************************************)
EXTENDS Integers, Sequences, FiniteSets, TLC

(***************************************************************************)
(* Bounds of the model.                                                    *)
(***************************************************************************)
\* Largest number of lines of a document under analysis.
MaxLines == 2
\* Largest number of analyze_legal_document calls recorded in one behaviour.
MaxCalls == 2
\* Largest number of paths in the list handed to batch_process.
MaxBatch == 3
\* Number of threads, each calling one method of an analyser instance.
MaxThreads == 2
\* The most words of the vocabulary a text of the lite analyser is made of
\* (texts made of concepts only may have more).
MaxWords == 2

(***************************************************************************)
(* Characters and Python's str helpers.                                    *)
(***************************************************************************)
UpperCase == "ABCDEFGHIJKLMNOPQRSTUVWXYZ"
LowerCase == "abcdefghijklmnopqrstuvwxyz"
DigitChars == {"0", "1", "2", "3", "4", "5", "6", "7", "8", "9"}
UpperChars == {SubSeq(UpperCase, i, i) : i \in 1..26}
LowerChars == {SubSeq(LowerCase, i, i) : i \in 1..26}
\* \w of the re module (restricted to the characters of the model).
WordChars == UpperChars \cup LowerChars \cup DigitChars \cup {"_"}
\* \s of the re module and the characters str.strip() removes.
SpaceChars == {" ", "\t", "\n", "\r"}

CharAt(s, i) == SubSeq(s, i, i)

LowerMap == [c \in UpperChars |->
               SubSeq(LowerCase, CHOOSE i \in 1..26 : SubSeq(UpperCase, i, i) = c,
                                 CHOOSE i \in 1..26 : SubSeq(UpperCase, i, i) = c)]

LowerChar(c) == IF c \in UpperChars THEN LowerMap[c] ELSE c

\* The least element of a non-empty set of integers.
Min(S) == CHOOSE x \in S : \A y \in S : x <= y

RECURSIVE lower(_)
\* str.lower(), character by character (computed by halves to keep the
\* recursion shallow).
lower(s) ==
    IF Len(s) = 0 THEN ""
    ELSE IF Len(s) = 1 THEN LowerChar(s)
    ELSE lower(SubSeq(s, 1, Len(s) \div 2)) \o lower(SubSeq(s, Len(s) \div 2 + 1, Len(s)))

\* str.strip(): the text between the first and the last character that is
\* not white space.
strip(s) ==
    LET kept == {i \in 1..Len(s) : CharAt(s, i) \notin SpaceChars}
    IN  IF kept = {} THEN ""
        ELSE SubSeq(s, Min(kept), CHOOSE i \in kept : \A j \in kept : j <= i)

\* s[i-1:].startswith(sub)
StartsAt(s, sub, i) == i + Len(sub) - 1 <= Len(s) /\ SubSeq(s, i, i + Len(sub) - 1) = sub

RECURSIVE CountFrom(_, _, _)
\* The occurrences counted from position k on, given the set occ of all
\* positions where the substring (of length n) occurs.
CountFrom(occ, n, k) ==
    LET rest == {i \in occ : i >= k}
    IN  IF rest = {} THEN 0 ELSE 1 + CountFrom(occ, n, Min(rest) + n)

\* str.count(sub): the number of non-overlapping occurrences, scanning from
\* the left; sub is not empty.
count(s, sub) == CountFrom({i \in 1..Len(s) : StartsAt(s, sub, i)}, Len(sub), 1)

\* sub in s
contains(s, sub) == \E i \in 1..Len(s) : StartsAt(s, sub, i)

\* content.split('\n')
split(s) ==
    LET nl == {i \in 1..Len(s) : CharAt(s, i) = "\n"}
        nth(n) == CHOOSE i \in nl : Cardinality({j \in nl : j < i}) = n - 1
    IN  [n \in 1..(Cardinality(nl) + 1) |->
           SubSeq(s, IF n = 1 THEN 1 ELSE nth(n - 1) + 1,
                     IF n = Cardinality(nl) + 1 THEN Len(s) ELSE nth(n) - 1)]

RECURSIVE FlattenRange(_, _, _)
FlattenRange(ss, lo, hi) ==
    IF lo > hi THEN <<>>
    ELSE IF lo = hi THEN ss[lo]
    ELSE FlattenRange(ss, lo, (lo + hi) \div 2) \o FlattenRange(ss, (lo + hi) \div 2 + 1, hi)

\* The concatenation of a sequence of sequences, in order.
Flatten(ss) == FlattenRange(ss, 1, Len(ss))

(***************************************************************************)
(* Regular expressions: syntax trees and Python's matching order.          *)
(***************************************************************************)
Lit(str)    == [t |-> "lit", s |-> str]          \* the characters of str
In(chars)   == [t |-> "in", c |-> chars]         \* [...]
NotIn(chars) == [t |-> "notin", c |-> chars]     \* [^...]
Dot         == [t |-> "dot"]                     \* .
WordB       == [t |-> "wordb"]                   \* \b
Bol         == [t |-> "bol"]                     \* ^
Alt(rs)     == [t |-> "alt", r |-> rs]           \* r1|r2|...
Cat(rs)     == [t |-> "cat", r |-> rs]           \* r1 r2 ...
Star(r)     == [t |-> "star", r |-> r]           \* r*  (greedy)
Opt(r)      == [t |-> "opt", r |-> r]            \* r?  (greedy)
Plus(r)     == Cat(<<r, Star(r)>>)               \* r+  (greedy)
Words(ws)   == Alt([i \in 1..Len(ws) |-> Lit(ws[i])])   \* (w1|w2|...)
Digit       == In(DigitChars)                    \* \d
Space       == In(SpaceChars)                    \* \s
Word        == In(WordChars)                     \* \w

CharEq(a, b, ic) == IF ic THEN LowerChar(a) = LowerChar(b) ELSE a = b

IsWordAt(s, i) == i >= 1 /\ i <= Len(s) /\ CharAt(s, i) \in WordChars

\* Whether the one-character pattern r (a character class, a dot or a
\* one-character literal) matches the character at position i of s.
OneChar(r) == r.t \in {"in", "notin", "dot"} \/ (r.t = "lit" /\ Len(r.s) = 1)

CharMatches(r, s, i, ic) ==
    /\ i >= 1 /\ i <= Len(s)
    /\ CASE r.t = "in" -> \E c \in r.c : CharEq(CharAt(s, i), c, ic)
         [] r.t = "notin" -> \A c \in r.c : ~CharEq(CharAt(s, i), c, ic)
         [] r.t = "dot" -> CharAt(s, i) # "\n"
         [] r.t = "lit" -> CharEq(CharAt(s, i), r.s, ic)

RECURSIVE Match(_, _, _, _)
RECURSIVE MatchCat(_, _, _, _, _)
RECURSIVE MatchAlt(_, _, _, _, _)

\* The matches of r from each of the positions ps, in that order.
MatchEach(r, s, ps, ic) == Flatten([n \in 1..Len(ps) |-> Match(r, s, ps[n], ic)])

\* The positions right after the matches of r that start at position i of
\* s, in the order in which the backtracking matcher tries them (so the
\* first one is where the match found by the re module ends).  ic is the
\* re.IGNORECASE flag.
Match(r, s, i, ic) ==
    CASE r.t = "cat" -> MatchCat(r.r, 1, s, <<i>>, ic)
      [] r.t = "alt" -> MatchAlt(r.r, 1, s, i, ic)
      [] r.t = "lit" ->
           IF /\ i + Len(r.s) - 1 <= Len(s)
              /\ \A k \in 1..Len(r.s) : CharEq(CharAt(s, i + k - 1), CharAt(r.s, k), ic)
           THEN <<i + Len(r.s)>> ELSE <<>>
      [] r.t = "wordb" ->
           IF IsWordAt(s, i - 1) # IsWordAt(s, i) THEN <<i>> ELSE <<>>
      [] r.t \in {"in", "notin", "dot"} ->
           IF CharMatches(r, s, i, ic) THEN <<i + 1>> ELSE <<>>
      [] r.t = "bol" ->
           IF i = 1 THEN <<i>> ELSE <<>>
      [] r.t = "star" /\ OneChar(r.r) ->
           \* greedy: the longest run first, then one character less, ...
           LET stop == Min({j \in i..(Len(s) + 1) : ~CharMatches(r.r, s, j, ic)})
           IN  [n \in 1..(stop - i + 1) |-> stop - n + 1]
      [] r.t = "star" /\ ~OneChar(r.r) ->
           LET once == Match(r.r, s, i, ic)
               further == SelectSeq(once, LAMBDA j : j > i)
           IN  MatchEach(r, s, further, ic) \o <<i>>
      [] r.t = "opt" -> Match(r.r, s, i, ic) \o <<i>>

MatchCat(rs, k, s, ps, ic) ==
    IF k > Len(rs) \/ ps = <<>> THEN ps
    ELSE MatchCat(rs, k + 1, s, MatchEach(rs[k], s, ps, ic), ic)

MatchAlt(rs, k, s, i, ic) ==
    IF k > Len(rs) THEN <<>>
    ELSE Match(rs[k], s, i, ic) \o MatchAlt(rs, k + 1, s, i, ic)

\* For every position k of s (and the one after the last), the position
\* right after the match of r that starts at k, or 0 when r does not
\* match at k.
MatchEnds(r, s, ic) ==
    [k \in 1..(Len(s) + 1) |-> LET m == Match(r, s, k, ic) IN IF m = <<>> THEN 0 ELSE Head(m)]

NoMatch == [start |-> 0, end |-> 0]

\* The leftmost match starting at position k or later: its first position
\* and the position right after it.
NextMatch(ends, k) ==
    LET starts == {j \in k..Len(ends) : ends[j] # 0}
    IN  IF starts = {} THEN NoMatch ELSE [start |-> Min(starts), end |-> ends[Min(starts)]]

\* re.search(r, s, flags)
search(r, s, ic) == NextMatch(MatchEnds(r, s, ic), 1)

\* match.group(0)
group0(s, m) == SubSeq(s, m.start, m.end - 1)

RECURSIVE FindFrom(_, _)
\* The successive non-overlapping matches from position k on.
FindFrom(ends, k) ==
    LET m == NextMatch(ends, k)
    IN  IF m = NoMatch THEN <<>>
        ELSE <<m>> \o FindFrom(ends, IF m.end > m.start THEN m.end ELSE m.end + 1)

\* list(re.finditer(r, s, flags))
finditer(r, s, ic) == FindFrom(MatchEnds(r, s, ic), 1)

\* len(re.findall(r, s, flags))
findall_len(r, s, ic) == Len(finditer(r, s, ic))

(***************************************************************************)
(* core.py: symbols, pattern catalog, complexity scores, legal domain.     *)
(***************************************************************************)
LEGAL_SYMBOLS == [STRUCTURE |-> "⟐", FLOW |-> "⧈", DECISION |-> "◈", IMPACT |-> "⟡"]

\* The keys of the dict built by _initialize_legal_patterns, in insertion
\* (= iteration) order.
DomainOrder == <<"constitutional", "criminal", "civil", "commercial", "procedural">>

_legal_patterns ==
    [constitutional |->
       [keywords |-> <<"constitution", "amendment", "fundamental", "rights", "freedom", "liberty">>,
        patterns |-> << Cat(<<WordB, Lit("Article"), Plus(Space), Plus(In({"I", "V", "X", "L", "C", "D", "M"}))>>),
                        Cat(<<WordB, Lit("Amendment"), Plus(Space), Plus(Digit)>>),
                        Cat(<<WordB, Lit("Section"), Plus(Space), Plus(Digit)>>) >>,
        symbol |-> LEGAL_SYMBOLS.STRUCTURE, symbol_name |-> "STRUCTURE"],
     criminal |->
       [keywords |-> <<"crime", "criminal", "prosecution", "defendant", "guilty", "sentence">>,
        patterns |-> << Cat(<<WordB, Lit("Penal"), Plus(Space), Lit("Code")>>),
                        Cat(<<WordB, Lit("Criminal"), Plus(Space), Lit("Code")>>),
                        Cat(<<WordB, Lit("felony")>>),
                        Cat(<<WordB, Lit("misdemeanor")>>) >>,
        symbol |-> LEGAL_SYMBOLS.IMPACT, symbol_name |-> "IMPACT"],
     civil |->
       [keywords |-> <<"plaintiff", "defendant", "damages", "liability", "tort", "negligence">>,
        patterns |-> << Cat(<<WordB, Lit("Civil"), Plus(Space), Lit("Code")>>),
                        Cat(<<WordB, Lit("liability")>>),
                        Cat(<<WordB, Lit("damages")>>) >>,
        symbol |-> LEGAL_SYMBOLS.DECISION, symbol_name |-> "DECISION"],
     commercial |->
       [keywords |-> <<"contract", "agreement", "commercial", "business", "trade", "commerce">>,
        patterns |-> << Cat(<<WordB, Lit("contract")>>),
                        Cat(<<WordB, Lit("agreement")>>),
                        Cat(<<WordB, Lit("commercial")>>) >>,
        symbol |-> LEGAL_SYMBOLS.FLOW, symbol_name |-> "FLOW"],
     procedural |->
       [keywords |-> <<"procedure", "process", "filing", "motion", "hearing", "trial">>,
        patterns |-> << Cat(<<WordB, Lit("Rule"), Plus(Space), Plus(Digit)>>),
                        Cat(<<WordB, Lit("procedure")>>),
                        Cat(<<WordB, Lit("motion")>>) >>,
        symbol |-> LEGAL_SYMBOLS.FLOW, symbol_name |-> "FLOW"]]

\* Variant: the heading and the '§' pattern are not anchored.
section_patterns_Unanchored ==
    << Cat(<<Words(<<"ARTICLE", "SECTION", "CHAPTER", "TITLE">>), Plus(Space),
             Alt(<<Plus(In({"I", "V", "X", "L", "C", "D", "M"})), Plus(Digit)>>)>>),
       Cat(<<Lit("§"), Star(Space), Plus(Digit)>>),
       Cat(<<Bol, Plus(Digit), Lit("."), Star(Space), In(UpperChars), Star(NotIn({"."}))>>) >>

section_patterns ==
    << Cat(<<Bol, Words(<<"ARTICLE", "SECTION", "CHAPTER", "TITLE">>), Plus(Space),
             Alt(<<Plus(In({"I", "V", "X", "L", "C", "D", "M"})), Plus(Digit)>>)>>),
       Cat(<<Bol, Lit("§"), Star(Space), Plus(Digit)>>),
       Cat(<<Bol, Plus(Digit), Lit("."), Star(Space), In(UpperChars), Star(NotIn({"."}))>>) >>

flow_patterns ==
    << Cat(<<WordB, Words(<<"shall", "must", "may", "should">>), Plus(Space), Plus(Word)>>),
       Cat(<<WordB, Words(<<"procedure", "process", "method", "steps">>), WordB>>),
       Cat(<<WordB, Words(<<"filing", "submission", "application">>), WordB>>),
       Cat(<<WordB, Lit("within"), Plus(Space), Plus(Digit), Plus(Space), Lit("days"), WordB>>) >>

decision_patterns ==
    << Cat(<<WordB, Words(<<"if", "when", "unless", "provided that">>), WordB, Star(Dot),
             WordB, Words(<<"then", "shall", "must">>), WordB>>),
       Cat(<<WordB, Alt(<<Cat(<<Lit("court"), Plus(Space), Lit("finds")>>),
                          Cat(<<Lit("court"), Plus(Space), Lit("determines")>>),
                          Cat(<<Lit("court"), Plus(Space), Lit("decides")>>)>>), WordB>>),
       Cat(<<WordB, Words(<<"guilty", "not guilty", "liable", "not liable">>), WordB>>),
       Cat(<<WordB, Words(<<"granted", "denied", "dismissed", "sustained">>), WordB>>) >>

impact_patterns ==
    << Cat(<<WordB, Words(<<"penalty", "fine", "imprisonment", "sentence">>), WordB>>),
       Cat(<<WordB, Words(<<"damages", "compensation", "restitution">>), WordB>>),
       Cat(<<WordB, Words(<<"injunction", "restraining order">>), WordB>>),
       Cat(<<WordB, Words(<<"constitutional", "unconstitutional">>), WordB>>),
       Cat(<<WordB, Words(<<"precedent", "landmark", "significant">>), WordB>>) >>

min(a, b) == IF a <= b THEN a ELSE b

\* Variant: three independent ifs instead of if/elif/elif, so the tiers add
\* up.
_calculate_structural_complexity_Additive(text) ==
    LET tier1 == IF search(Cat(<<WordB, Words(<<"TITLE", "CHAPTER">>), WordB>>), text, TRUE) # NoMatch
                 THEN 3 ELSE 0
        tier2 == IF search(Cat(<<WordB, Words(<<"ARTICLE", "SECTION">>), WordB>>), text, TRUE) # NoMatch
                 THEN 2 ELSE 0
        tier3 == IF search(Alt(<<Lit("§"), Cat(<<Plus(Digit), Lit(".")>>)>>), text, FALSE) # NoMatch
                 THEN 1 ELSE 0
    IN  min(1 + tier1 + tier2 + tier3, 10)

_calculate_structural_complexity(text) ==
    LET complexity ==
          IF search(Cat(<<WordB, Words(<<"TITLE", "CHAPTER">>), WordB>>), text, TRUE) # NoMatch
          THEN 1 + 3
          ELSE IF search(Cat(<<WordB, Words(<<"ARTICLE", "SECTION">>), WordB>>), text, TRUE) # NoMatch
          THEN 1 + 2
          ELSE IF search(Alt(<<Lit("§"), Cat(<<Plus(Digit), Lit(".")>>)>>), text, FALSE) # NoMatch
          THEN 1 + 1
          ELSE 1
    IN  min(complexity, 10)

\* Variant: the score is not clamped to the ceiling.
_calculate_flow_complexity_Unclamped(text) ==
    LET modal_verbs == findall_len(Cat(<<WordB, Words(<<"shall", "must", "may", "should", "will">>), WordB>>),
                                   text, TRUE)
        time_constraints ==
            findall_len(Cat(<<WordB, Plus(Digit), Plus(Space),
                              Alt(<<Cat(<<Lit("day"), Opt(Lit("s"))>>), Cat(<<Lit("week"), Opt(Lit("s"))>>),
                                    Cat(<<Lit("month"), Opt(Lit("s"))>>), Cat(<<Lit("year"), Opt(Lit("s"))>>)>>),
                              WordB>>), text, TRUE)
    IN  1 + modal_verbs + time_constraints * 2

\* Variant: a time constraint adds 1, not 2.
_calculate_flow_complexity_TimeSingle(text) ==
    LET modal_verbs == findall_len(Cat(<<WordB, Words(<<"shall", "must", "may", "should", "will">>), WordB>>),
                                   text, TRUE)
        time_constraints ==
            findall_len(Cat(<<WordB, Plus(Digit), Plus(Space),
                              Alt(<<Cat(<<Lit("day"), Opt(Lit("s"))>>), Cat(<<Lit("week"), Opt(Lit("s"))>>),
                                    Cat(<<Lit("month"), Opt(Lit("s"))>>), Cat(<<Lit("year"), Opt(Lit("s"))>>)>>),
                              WordB>>), text, TRUE)
    IN  min(1 + modal_verbs + time_constraints, 15)

_calculate_flow_complexity(text) ==
    LET modal_verbs == findall_len(Cat(<<WordB, Words(<<"shall", "must", "may", "should", "will">>), WordB>>),
                                   text, TRUE)
        time_constraints ==
            findall_len(Cat(<<WordB, Plus(Digit), Plus(Space),
                              Alt(<<Cat(<<Lit("day"), Opt(Lit("s"))>>), Cat(<<Lit("week"), Opt(Lit("s"))>>),
                                    Cat(<<Lit("month"), Opt(Lit("s"))>>), Cat(<<Lit("year"), Opt(Lit("s"))>>)>>),
                              WordB>>), text, TRUE)
    IN  min(1 + modal_verbs + time_constraints * 2, 15)

\* Variant: a conditional adds 1, not 2.
_calculate_decision_complexity_Unweighted(text) ==
    LET conditionals == findall_len(Cat(<<WordB, Words(<<"if", "when", "unless", "provided", "except">>), WordB>>),
                                    text, TRUE)
        logical_ops == findall_len(Cat(<<WordB, Words(<<"and", "or", "but", "however", "nevertheless">>), WordB>>),
                                   text, TRUE)
    IN  min(2 + conditionals + logical_ops, 20)

_calculate_decision_complexity(text) ==
    LET conditionals == findall_len(Cat(<<WordB, Words(<<"if", "when", "unless", "provided", "except">>), WordB>>),
                                    text, TRUE)
        logical_ops == findall_len(Cat(<<WordB, Words(<<"and", "or", "but", "however", "nevertheless">>), WordB>>),
                                   text, TRUE)
    IN  min(2 + conditionals * 2 + logical_ops, 20)

RECURSIVE SumSeq(_)
SumSeq(ns) == IF ns = <<>> THEN 0 ELSE Head(ns) + SumSeq(Tail(ns))

severity_words == <<"severe", "significant", "major", "critical", "substantial">>

\* Variant: a monetary amount adds 2, not 3.
_calculate_impact_complexity_MoneyDouble(text) ==
    LET severity_count == Cardinality({i \in 1..Len(severity_words) : contains(lower(text), severity_words[i])})
        monetary == findall_len(Alt(<<Cat(<<Lit("$"), Plus(In(DigitChars \cup {","}))>>),
                                      Cat(<<WordB, Plus(Digit), Star(Space), Lit("dollar"), Opt(Lit("s")), WordB>>)>>),
                                text, TRUE)
    IN  min(3 + severity_count * 2 + monetary * 2, 25)

\* Variant: a severity word adds 2 for each of its occurrences.
_calculate_impact_complexity_PerOccurrence(text) ==
    LET severity_count == SumSeq([i \in 1..Len(severity_words) |-> count(lower(text), severity_words[i])])
        monetary == findall_len(Alt(<<Cat(<<Lit("$"), Plus(In(DigitChars \cup {","}))>>),
                                      Cat(<<WordB, Plus(Digit), Star(Space), Lit("dollar"), Opt(Lit("s")), WordB>>)>>),
                                text, TRUE)
    IN  min(3 + severity_count * 2 + monetary * 3, 25)

_calculate_impact_complexity(text) ==
    LET severity_count == Cardinality({i \in 1..Len(severity_words) : contains(lower(text), severity_words[i])})
        monetary == findall_len(Alt(<<Cat(<<Lit("$"), Plus(In(DigitChars \cup {","}))>>),
                                      Cat(<<WordB, Plus(Digit), Star(Space), Lit("dollar"), Opt(Lit("s")), WordB>>)>>),
                                text, TRUE)
    IN  min(3 + severity_count * 2 + monetary * 3, 25)

\* The value of `score` at line 348 for one domain.
DomainScore(domain, content) ==
    LET patterns == _legal_patterns[domain]
        content_lower == lower(content)
    IN  SumSeq([k \in 1..Len(patterns.keywords) |-> count(content_lower, patterns.keywords[k])])
        + SumSeq([k \in 1..Len(patterns.patterns) |-> findall_len(patterns.patterns[k], content, TRUE)])

RECURSIVE MaxByKey_LastWins(_, _, _, _)
\* Variant: a later item with an equal key replaces the best one so far.
MaxByKey_LastWins(items, key, k, best) ==
    IF k > Len(items) THEN best
    ELSE MaxByKey_LastWins(items, key, k + 1, IF key[items[k]] >= key[best] THEN items[k] ELSE best)

RECURSIVE MaxByKey(_, _, _, _)
\* Python's max(iterable, key=...): the first item whose key is maximal.
MaxByKey(items, key, k, best) ==
    IF k > Len(items) THEN best
    ELSE MaxByKey(items, key, k + 1, IF key[items[k]] > key[best] THEN items[k] ELSE best)

\* Variant: 'general' is the answer when no domain scores above zero.
_determine_legal_domain_GeneralWhenZero(content) ==
    LET domain_scores == [d \in {DomainOrder[k] : k \in 1..Len(DomainOrder)} |-> DomainScore(d, content)]
    IN  IF \E k \in 1..Len(DomainOrder) : domain_scores[DomainOrder[k]] > 0
        THEN MaxByKey(DomainOrder, domain_scores, 2, DomainOrder[1])
        ELSE "general"

_determine_legal_domain(content) ==
    LET domain_scores == [d \in {DomainOrder[k] : k \in 1..Len(DomainOrder)} |-> DomainScore(d, content)]
    IN  IF Len(DomainOrder) > 0
        THEN MaxByKey(DomainOrder, domain_scores, 2, DomainOrder[1])
        ELSE "general"

(***************************************************************************)
(* The documents of the model.                                             *)
(***************************************************************************)
\* Lines that documents of up to MaxLines lines are built from.
Lines ==
    << "ARTICLE I - Definitions",
       "The tenant must vacate within 30 days",
       "The court finds the defendant guilty",
       "  2. See SECTION 5 and § 12.",
       "the contract procedure",
       "if a fine then damages" >>

\* One-line documents analysed on their own.
SingleLineDocs ==
    { "",
      "you must file the application and shall use the process within 9 days",
      "shall must may should will 1 day 2 days 3 weeks 4 months 5 years",
      "if if if if if if if or or or or or then",
      "fine $1 $2 $3 $4 $5 $6 $7 $8",
      "see SECTION 5",
      "§ 7 Remedies",
      "  CHAPTER IV",
      "CHAPTER 2 SECTION 1",
      "if the claim is denied and dismissed then the court decides",
      "a severe penalty of $1,000 or 20 dollars",
      "an insignificant but severe, severe penalty",
      "article 5 ENTITLED Remedies",
      "the motion is denied",
      "a landmark and significant precedent",
      "liable for restitution under the agreement" }

RECURSIVE JoinLines(_)
\* '\n'.join(ls)
JoinLines(ls) ==
    IF Len(ls) = 0 THEN ""
    ELSE IF Len(ls) = 1 THEN ls[1]
    ELSE ls[1] \o "\n" \o JoinLines(Tail(ls))

\* Two-line documents whose line break is CR LF or a lone CR.
LineBreakDocs ==
    {Lines[i] \o sep \o Lines[j] : i \in 1..3, j \in 1..3, sep \in {"\r\n", "\r"}}

Contents ==
    SingleLineDocs \cup LineBreakDocs \cup
    UNION { {JoinLines([k \in 1..n |-> Lines[ix[k]]]) : ix \in [1..n -> 1..Len(Lines)]} : n \in 1..MaxLines }

FilePaths == {"lease.txt"}

\* A file of plain text: its size in bytes is its length.
TextFile(dir, path, ext, content) ==
    [dir |-> dir, path |-> path, ext |-> ext, content |-> content, size |-> Len(content), utf8 |-> TRUE]

\* The files on disk: each with its directory, its suffix, its size
\* (os.path.getsize), whether its bytes decode as UTF-8 and, if so, what
\* reading it returns.  The content of archive/register.json stands for
\* 5000001 bytes that no operation reads.
Files ==
    << TextFile("contracts", "contracts/lease.txt", ".txt", "The tenant must vacate within 30 days"),
       TextFile("contracts", "contracts/terms.md", ".md", "the contract procedure\nif a fine then damages"),
       TextFile("contracts", "contracts/scan.pdf", ".pdf", "ARTICLE I - Definitions"),
       TextFile("cases", "cases/ruling.txt", ".txt", "The court finds the defendant guilty"),
       TextFile("cases", "cases/schedule.md", ".md",
                "fine $100 or $200 or $300 or $400 or $500 if the tenant or the agent must pay\n"
                \o "within 30 days the tenant shall vacate"),
       [dir |-> "cases", path |-> "cases/exhibit.txt", ext |-> ".txt", content |-> "",
        size |-> 2, utf8 |-> FALSE],
       [dir |-> "archive", path |-> "archive/register.json", ext |-> ".json", content |-> "",
        size |-> 5000001, utf8 |-> TRUE] >>

Directories == {Files[k].dir : k \in 1..Len(Files)}

legal_extensions == <<".txt", ".md", ".pdf", ".doc", ".docx">>

\* The analyser instances of a behaviour.
Instances == {1, 2}

\* The paths handed to process_document and batch_process: two documents
\* that load, one that is not valid UTF-8, one above max_document_size and
\* one that does not exist.
DocumentPaths ==
    {"contracts/lease.txt", "cases/schedule.md", "cases/exhibit.txt", "archive/register.json",
     "contracts/gone.txt"}

\* The texts handed to process_text.
Texts == SingleLineDocs \cup {Lines[k] : k \in 1..Len(Lines)}

\* _determine_legal_domain for each document of the model.  The extractors
\* call it for every element they build, always with the content of the
\* document; it is a function of the content alone, so its value is
\* computed once for each document.
DocumentDomain ==
    [content \in Contents \cup {Files[k].content : k \in 1..Len(Files)} |->
       _determine_legal_domain(content)] @@ <<>>

(***************************************************************************)
(* core.py: the four extractors and analyze_legal_document.                *)
(***************************************************************************)
\* Variant: the snippet is the line as it stands, not trimmed.
LegalElement_RawSnippet(file_path, name, symbol_name, line_no, complexity_score, label, line, element_type, content) ==
    [file_path |-> file_path,
     name |-> name,
     symbol |-> LEGAL_SYMBOLS[symbol_name],
     symbol_name |-> symbol_name,
     line_start |-> line_no,
     line_end |-> line_no,
     complexity_score |-> complexity_score,
     description |-> label \o ": " \o name,
     content_snippet |-> line,
     element_type |-> element_type,
     legal_domain |-> DocumentDomain[content],
     jurisdiction |-> "multi"]

\* Variant: the domain is determined from the element's line, not from the
\* whole document.
LegalElement_LineDomain(file_path, name, symbol_name, line_no, complexity_score, label, line, element_type, content) ==
    [file_path |-> file_path,
     name |-> name,
     symbol |-> LEGAL_SYMBOLS[symbol_name],
     symbol_name |-> symbol_name,
     line_start |-> line_no,
     line_end |-> line_no,
     complexity_score |-> complexity_score,
     description |-> label \o ": " \o name,
     content_snippet |-> strip(line),
     element_type |-> element_type,
     legal_domain |-> _determine_legal_domain(line),
     jurisdiction |-> "multi"]

\* LegalElement(...): the dataclass instance the extractors build.
LegalElement(file_path, name, symbol_name, line_no, complexity_score, label, line, element_type, content) ==
    [file_path |-> file_path,
     name |-> name,
     symbol |-> LEGAL_SYMBOLS[symbol_name],
     symbol_name |-> symbol_name,
     line_start |-> line_no,
     line_end |-> line_no,
     complexity_score |-> complexity_score,
     description |-> label \o ": " \o name,
     content_snippet |-> strip(line),
     element_type |-> element_type,
     legal_domain |-> DocumentDomain[content],
     jurisdiction |-> "multi"]

\* Variant: the patterns are matched against the line as it stands, not
\* against the trimmed line.
StructureOfLine_NoStrip(file_path, content, lines, i1) ==
    LET line == lines[i1]
    IN  Flatten([p \in 1..Len(section_patterns) |->
          LET match == search(section_patterns[p], line, TRUE)
          IN  IF match # NoMatch
              THEN <<LegalElement(file_path, group0(line, match), "STRUCTURE", (i1 - 1) + 1,
                                  _calculate_structural_complexity(line),
                                  "Legal document structure", line, "structure", content)>>
              ELSE <<>>])

\* enumerate(lines): the 0-based index i of the code is i1 - 1.
StructureOfLine(file_path, content, lines, i1) ==
    LET line == lines[i1]
    IN  Flatten([p \in 1..Len(section_patterns) |->
          LET match == search(section_patterns[p], strip(line), TRUE)
          IN  IF match # NoMatch
              THEN <<LegalElement(file_path, group0(strip(line), match), "STRUCTURE", (i1 - 1) + 1,
                                  _calculate_structural_complexity(line),
                                  "Legal document structure", line, "structure", content)>>
              ELSE <<>>])

_analyze_document_structure(file_path, content, lines) ==
    Flatten([i1 \in 1..Len(lines) |-> StructureOfLine(file_path, content, lines, i1)])

\* Variant: no break, the loop body runs for every match.
UntilBreak_NoBreak(matches) == matches

\* Variant: the loop body runs for the last match only.
UntilBreak_Last(matches) == IF matches = <<>> THEN <<>> ELSE <<matches[Len(matches)]>>

\* `for match in matches: ...; break`: the loop body runs for the first
\* match only.
UntilBreak(matches) == IF matches = <<>> THEN <<>> ELSE <<Head(matches)>>

\* Variant: the score is computed from the matched text, not from the line.
FlowOfLine_MatchScore(file_path, content, lines, i1) ==
    LET line == lines[i1]
    IN  Flatten([p \in 1..Len(flow_patterns) |->
          LET matches == UntilBreak(finditer(flow_patterns[p], line, TRUE))
          IN  [k \in 1..Len(matches) |->
                 LegalElement(file_path, group0(line, matches[k]), "FLOW", (i1 - 1) + 1,
                              _calculate_flow_complexity(group0(line, matches[k])),
                              "Legal process flow", line, "flow", content)]])

FlowOfLine(file_path, content, lines, i1) ==
    LET line == lines[i1]
    IN  Flatten([p \in 1..Len(flow_patterns) |->
          LET matches == UntilBreak(finditer(flow_patterns[p], line, TRUE))
          IN  [k \in 1..Len(matches) |->
                 LegalElement(file_path, group0(line, matches[k]), "FLOW", (i1 - 1) + 1,
                              _calculate_flow_complexity(line),
                              "Legal process flow", line, "flow", content)]])

_analyze_legal_flows(file_path, content, lines) ==
    Flatten([i1 \in 1..Len(lines) |-> FlowOfLine(file_path, content, lines, i1)])

RECURSIVE FirstPattern_LastWins(_, _, _)
\* Variant: no break, a later matching pattern replaces an earlier one.
FirstPattern_LastWins(patterns, line, p) ==
    IF p > Len(patterns) THEN [index |-> 0, match |-> NoMatch]
    ELSE LET match == search(patterns[p], line, TRUE)
             later == FirstPattern_LastWins(patterns, line, p + 1)
         IN  IF later.index # 0 THEN later
             ELSE IF match # NoMatch THEN [index |-> p, match |-> match]
             ELSE later

RECURSIVE FirstPattern(_, _, _)
\* `for pattern in patterns: match = re.search(...); if match: ...; break`:
\* the index of the pattern whose match the loop body uses and that match,
\* or index 0 when the loop ends without a match.
FirstPattern(patterns, line, p) ==
    IF p > Len(patterns) THEN [index |-> 0, match |-> NoMatch]
    ELSE LET match == search(patterns[p], line, TRUE)
         IN  IF match # NoMatch THEN [index |-> p, match |-> match]
             ELSE FirstPattern(patterns, line, p + 1)

DecisionOfLine(file_path, content, lines, i1) ==
    LET line == lines[i1]
        hit == FirstPattern(decision_patterns, line, 1)
    IN  IF hit.index # 0
        THEN <<LegalElement(file_path, group0(line, hit.match), "DECISION", (i1 - 1) + 1,
                            _calculate_decision_complexity(line),
                            "Legal decision point", line, "decision", content)>>
        ELSE <<>>

_analyze_legal_decisions(file_path, content, lines) ==
    Flatten([i1 \in 1..Len(lines) |-> DecisionOfLine(file_path, content, lines, i1)])

ImpactOfLine(file_path, content, lines, i1) ==
    LET line == lines[i1]
        hit == FirstPattern(impact_patterns, line, 1)
    IN  IF hit.index # 0
        THEN <<LegalElement(file_path, group0(line, hit.match), "IMPACT", (i1 - 1) + 1,
                            _calculate_impact_complexity(line),
                            "High-impact legal consequence", line, "impact", content)>>
        ELSE <<>>

_analyze_legal_impacts(file_path, content, lines) ==
    Flatten([i1 \in 1..Len(lines) |-> ImpactOfLine(file_path, content, lines, i1)])

\* Variant: the decision elements are added before the flow elements.
analyze_legal_document_DecisionFirst(file_path, content) ==
    LET lines == split(content)
    IN  _analyze_document_structure(file_path, content, lines)
        \o _analyze_legal_decisions(file_path, content, lines)
        \o _analyze_legal_flows(file_path, content, lines)
        \o _analyze_legal_impacts(file_path, content, lines)

\* The list analyze_legal_document returns.  No step of the try block
\* raises on a string, so the except branch (return []) is never taken.
analyze_legal_document(file_path, content) ==
    LET lines == split(content)
    IN  _analyze_document_structure(file_path, content, lines)
        \o _analyze_legal_flows(file_path, content, lines)
        \o _analyze_legal_decisions(file_path, content, lines)
        \o _analyze_legal_impacts(file_path, content, lines)

(***************************************************************************)
(* State.                                                                  *)
(***************************************************************************)
VARIABLES
    input_path,      \* the file_path argument of analyze_legal_document
    input_content,   \* its content argument
    calls,           \* the completed analyze_legal_document calls: the instance, how many
                     \* elements it held in self.elements, the arguments, the list returned
    self_elements,   \* self.elements of each analyser instance
    self_stats,      \* self.stats of each analyser instance (a missing key reads 0)
    outcome,         \* the latest process_text, process_document, batch_process or
                     \* analyze_directory call: its arguments and what it returned
    threads          \* the method each thread is running on an analyser instance:
                     \* its arguments, its position and its local variables

vars == <<input_path, input_content, calls, self_elements, self_stats, outcome, threads>>

\* No such call has returned yet.
NoOutcome == [op |-> "none"]

\* The threads that call into the analyser instances.
Threads == 1..MaxThreads

\* No thread has called a method yet.
NoThreads == [t \in Threads |-> [op |-> "none"]]

StatKeys == {"txt_files", "txt_elements", "md_files", "md_elements"}

\* SymbolicLegalIntelligence.__init__
NewElements == <<>>
NewStats == [k \in StatKeys |-> 0]

\* The calls analyze_legal_document(file_path, content) made on a file of
\* the directory tree and on a text under the default source name.
Calls ==
    {<<Files[k].path, Files[k].content>> : k \in 1..Len(Files)}
        \cup {<<"direct_input", t>> : t \in Texts}

\* What each of these calls returns, computed once (@@ makes the table
\* explicit).
Analyses == [call \in Calls |-> analyze_legal_document(call[1], call[2])] @@ <<>>

\* What the call analyze_legal_document(fp, c) returns.
Returned(fp, c) ==
    IF <<fp, c>> \in Calls THEN Analyses[<<fp, c>>] ELSE analyze_legal_document(fp, c)

\* What self.analyzer.analyze_legal_document(fp, c) returns to the
\* processor, whose calls are all in Calls.
Analysed(fp, c) == Analyses[<<fp, c>>]

\* The analyses of the files of the directory tree.
FileAnalyses == [k \in 1..Len(Files) |-> Analyses[<<Files[k].path, Files[k].content>>]]

(***************************************************************************)
(* analyzer.py: the report of one analysis.                                *)
(*                                                                         *)
(* A Python dict is a sequence of [key, val] entries in insertion order.   *)
(* A call that raises is the record [exception |-> str(e)].                *)
(***************************************************************************)
DictHas(d, k) == \E n \in 1..Len(d) : d[n].key = k

\* d.get(k, default)
DictGet(d, k, default) ==
    IF DictHas(d, k) THEN d[CHOOSE n \in 1..Len(d) : d[n].key = k].val ELSE default

\* d[k] = v: an existing key keeps its place, a new key goes last.
DictSet(d, k, v) ==
    IF DictHas(d, k)
    THEN [n \in 1..Len(d) |-> IF d[n].key = k THEN [key |-> k, val |-> v] ELSE d[n]]
    ELSE Append(d, [key |-> k, val |-> v])

\* list(d)
DictKeys(d) == [n \in 1..Len(d) |-> d[n].key]

\* LEGAL_SYMBOLS.keys()
SymbolOrder == <<"STRUCTURE", "FLOW", "DECISION", "IMPACT">>

\* round(total / n, 2) in hundredths, n > 0: the nearest hundredth, a tie
\* going to the even one.  (A tie needs n to be a multiple of 8; below
\* n = 40 the quotient is then a multiple of 1/8, which a float holds
\* exactly.)
Round2(total, n) ==
    LET q == (total * 100) \div n
        r == (total * 100) % n
    IN  IF 2 * r > n THEN q + 1
        ELSE IF 2 * r < n THEN q
        ELSE IF q % 2 = 0 THEN q ELSE q + 1

RECURSIVE CountDomains(_, _, _)
\* The loop of lines 128-130 from element k on.
CountDomains(elements, k, domain_counts) ==
    IF k > Len(elements) THEN domain_counts
    ELSE CountDomains(elements, k + 1,
                      DictSet(domain_counts, elements[k].legal_domain,
                              DictGet(domain_counts, elements[k].legal_domain, 0) + 1))

\* d[max(d, key=d.get)]'s key for a non-empty dict d.
MaxKey(d) ==
    MaxByKey(DictKeys(d), [k \in {d[n].key : n \in 1..Len(d)} |-> DictGet(d, k, 0)], 2, d[1].key)

\* The dict _generate_analysis_report returns, given the value computed
\* for avg_complexity (in hundredths, rounded).  Of its keys, source,
\* analysis_summary and elements are modelled; symbolic_analysis,
\* legal_insights and analysis_metadata are derived from the same elements
\* (and the clock) and are left out.
AnalysisReport(source, content, elements, average_complexity) ==
    LET symbol_counts ==
            [n \in 1..Len(SymbolOrder) |->
               [key |-> SymbolOrder[n],
                val |-> Len(SelectSeq(elements, LAMBDA e : e.symbol_name = SymbolOrder[n]))]]
        domain_counts == CountDomains(elements, 1, <<>>)
        primary_domain == IF domain_counts # <<>> THEN MaxKey(domain_counts) ELSE "unknown"
    IN  [source |-> source,
         analysis_summary |->
            [total_elements |-> Len(elements),
             primary_legal_domain |-> primary_domain,
             average_complexity |-> average_complexity,
             document_length |-> Len(content),
             symbol_distribution |-> symbol_counts,
             domain_distribution |-> domain_counts],
         elements |->
            [n \in 1..Len(elements) |->
               [name |-> elements[n].name,
                symbol |-> elements[n].symbol,
                symbol_name |-> elements[n].symbol_name,
                line |-> elements[n].line_start,
                complexity |-> elements[n].complexity_score,
                description |-> elements[n].description,
                type |-> elements[n].element_type,
                domain |-> elements[n].legal_domain]]]

\* Variant: the average is computed without the guard for an empty list,
\* so the division raises ZeroDivisionError on it.
_generate_analysis_report_NoGuard(source, content, elements) ==
    LET complexity_scores == [n \in 1..Len(elements) |-> elements[n].complexity_score]
    IN  IF Len(complexity_scores) = 0
        THEN [exception |-> "division by zero"]
        ELSE AnalysisReport(source, content, elements,
                            Round2(SumSeq(complexity_scores), Len(complexity_scores)))

_generate_analysis_report(source, content, elements) ==
    LET complexity_scores == [n \in 1..Len(elements) |-> elements[n].complexity_score]
    IN  AnalysisReport(source, content, elements,
                       IF complexity_scores # <<>>
                       THEN Round2(SumSeq(complexity_scores), Len(complexity_scores))
                       ELSE 0)

\* Whether a result is a raised exception.
Raised(result) == "exception" \in DOMAIN result

\* try: ... except Exception as e: return {"error": str(e), "status": "failed"}
Failed(e) == [error |-> e.exception, status |-> "failed"]

\* try: return <result> / except Exception as e: return the failure.
Caught(result) == IF Raised(result) THEN Failed(result) ELSE result

\* Variant: the primary domain is that of the text, whether or not an
\* element was extracted.
process_text_DomainOfText(text, source_name) ==
    [Caught(_generate_analysis_report(source_name, text, Analysed(source_name, text)))
        EXCEPT !.analysis_summary.primary_legal_domain = _determine_legal_domain(text)]

process_text(text, source_name) ==
    Caught(_generate_analysis_report(source_name, text, Analysed(source_name, text)))

\* self._config["max_document_size"] of the default configuration.
max_document_size == 5000000

\* The index in Files of the file at a path, 0 when there is none
\* (os.path.exists is false).
FileAt(path) ==
    IF \E k \in 1..Len(Files) : Files[k].path = path
    THEN CHOOSE k \in 1..Len(Files) : Files[k].path = path
    ELSE 0

\* str(e) of the UnicodeDecodeError that reading cases/exhibit.txt (the
\* bytes FF FE) raises.
DecodeErrorText == "'utf-8' codec can't decode byte 0xff in position 0: invalid start byte"

\* analysis_result["file_metadata"] = {...}, reached when nothing was
\* raised before it.
WithFileMetadata(analysis_result, file_metadata) ==
    IF "error" \in DOMAIN analysis_result THEN analysis_result
    ELSE analysis_result @@ ("file_metadata" :> file_metadata)

\* process_document(document_path).  The hash entry of file_metadata and
\* the cache file written at the end, which no operation reads, are left
\* out.
process_document(document_path) ==
    LET k == FileAt(document_path)
    IN  IF k = 0
        THEN Failed([exception |-> "Document not found: " \o document_path])
        ELSE IF Files[k].size > max_document_size
        THEN Failed([exception |-> "Document too large: " \o ToString(Files[k].size) \o " bytes"])
        ELSE IF ~Files[k].utf8
        THEN Failed([exception |-> DecodeErrorText])
        ELSE WithFileMetadata(
                 Caught(_generate_analysis_report(document_path, Files[k].content,
                                                  Analysed(document_path, Files[k].content))),
                 [path |-> document_path, size |-> Files[k].size, format |-> Files[k].ext])

RECURSIVE MergeCounts_Overwrite(_, _, _)
\* Variant: a count replaces the count gathered so far instead of adding
\* to it.
MergeCounts_Overwrite(dist, k, d) ==
    IF k > Len(dist) THEN d
    ELSE MergeCounts_Overwrite(dist, k + 1, DictSet(d, dist[k].key, dist[k].val))

RECURSIVE MergeCounts(_, _, _)
\* `for key, count in dist.items(): d[key] = d.get(key, 0) + count`, from
\* entry k on.
MergeCounts(dist, k, d) ==
    IF k > Len(dist) THEN d
    ELSE MergeCounts(dist, k + 1, DictSet(d, dist[k].key, DictGet(d, dist[k].key, 0) + dist[k].val))

RECURSIVE Aggregate(_, _, _)
\* The loop of lines 246-258 from entry k of results on; acc holds
\* total_elements, domain_counts and symbol_counts.
Aggregate(results, k, acc) ==
    IF k > Len(results) THEN acc
    ELSE LET result == results[k].val
         IN  IF "error" \notin DOMAIN result
             THEN Aggregate(results, k + 1,
                            [total_elements |-> acc.total_elements + result.analysis_summary.total_elements,
                             domain_counts |-> MergeCounts(result.analysis_summary.domain_distribution, 1,
                                                           acc.domain_counts),
                             symbol_counts |-> MergeCounts(result.analysis_summary.symbol_distribution, 1,
                                                           acc.symbol_counts)])
             ELSE Aggregate(results, k + 1, acc)

\* f"{(successful/total)*100:.1f}%": the percentage to the nearest tenth.
\* (Below total = 16 no percentage lies halfway between two tenths.)
SuccessRate(successful, total) ==
    LET tenths == (2 * 1000 * successful + total) \div (2 * total)
    IN  ToString(tenths \div 10) \o "." \o ToString(tenths % 10) \o "%"

_generate_batch_summary(results) ==
    LET total == Len(results)
        successful == Len(SelectSeq(results, LAMBDA r : "error" \notin DOMAIN r.val))
        failed == total - successful
        acc == Aggregate(results, 1, [total_elements |-> 0, domain_counts |-> <<>>, symbol_counts |-> <<>>])
    IN  [total_documents |-> total,
         successful_analyses |-> successful,
         failed_analyses |-> failed,
         success_rate |-> IF total > 0 THEN SuccessRate(successful, total) ELSE "0%",
         aggregate_statistics |->
            [total_legal_elements |-> acc.total_elements,
             domain_distribution |-> acc.domain_counts,
             symbol_distribution |-> acc.symbol_counts]]

RECURSIVE ProcessEach_StopAtFailure(_, _, _)
\* Variant: the loop ends at the first document that fails.
ProcessEach_StopAtFailure(document_paths, k, results) ==
    IF k > Len(document_paths) THEN results
    ELSE LET result == process_document(document_paths[k])
         IN  IF "error" \in DOMAIN result
             THEN DictSet(results, document_paths[k], result)
             ELSE ProcessEach_StopAtFailure(document_paths, k + 1, DictSet(results, document_paths[k], result))

RECURSIVE ProcessEach(_, _, _)
\* The loop of lines 99-104 from path k on: results[doc_path] = result.
\* (process_document catches every exception itself, so the except branch
\* of the loop is never taken.)
ProcessEach(document_paths, k, results) ==
    IF k > Len(document_paths) THEN results
    ELSE ProcessEach(document_paths, k + 1,
                     DictSet(results, document_paths[k], process_document(document_paths[k])))

\* The dict of lines 109-112.
BatchReport(results) ==
    [batch_results |-> results, batch_summary |-> _generate_batch_summary(results)]

batch_process(document_paths) == BatchReport(ProcessEach(document_paths, 1, <<>>))

\* The lists of paths handed to batch_process.
BatchLists == UNION {[1..n -> DocumentPaths] : n \in 0..MaxBatch}

\* What batch_process returns for each of these lists, computed once.
BatchResults == [document_paths \in BatchLists |-> batch_process(document_paths)]

(***************************************************************************)
(* Operations.                                                             *)
(***************************************************************************)
\* Variant: the method accumulates into self.elements, as analyze_directory
\* does, and returns the accumulator.
AnalyzeLegalDocument_Accumulating(a, fp, c) ==
    /\ Len(calls) < MaxCalls
    /\ input_path' = fp
    /\ input_content' = c
    /\ self_elements' = [self_elements EXCEPT ![a] = @ \o Returned(fp, c)]
    /\ calls' = Append(calls, [instance |-> a, held |-> Len(self_elements[a]),
                               file_path |-> fp, content |-> c,
                               returned |-> self_elements'[a]])
    /\ UNCHANGED <<self_stats, outcome, threads>>

\* Instance a runs analyze_legal_document(fp, c): the method builds a
\* local list and returns it; self.elements and self.stats are not touched.
AnalyzeLegalDocument(a, fp, c) ==
    /\ Len(calls) < MaxCalls
    /\ input_path' = fp
    /\ input_content' = c
    /\ calls' = Append(calls, [instance |-> a, held |-> Len(self_elements[a]),
                               file_path |-> fp, content |-> c,
                               returned |-> Returned(fp, c)])
    /\ UNCHANGED <<self_elements, self_stats, outcome, threads>>

\* The files that exist (as indices into Files).
OnDisk == 1..Len(Files)

\* The files the two nested loops of analyze_directory process, in order,
\* when the files present exist: for each extension, the files of the
\* directory with that suffix; only the .txt and .md ones are read, and one
\* whose reading raises is logged and skipped.
ProcessedFiles(present, directory) ==
    Flatten([e \in 1..Len(legal_extensions) |->
               SelectSeq([k \in 1..Len(Files) |-> k],
                         LAMBDA k : /\ k \in present
                                    /\ Files[k].dir = directory
                                    /\ Files[k].ext = legal_extensions[e]
                                    /\ legal_extensions[e] \in {".txt", ".md"}
                                    /\ Files[k].utf8)])

RECURSIVE Tally(_, _, _)
\* `for key in keys: d[key] += 1` on a defaultdict(int), from key k on.
Tally(keys, k, d) ==
    IF k > Len(keys) THEN d
    ELSE Tally(keys, k + 1, DictSet(d, keys[k], DictGet(d, keys[k], 0) + 1))

\* Variant: a score of 3 is moderate, 8 complex, 15 very complex.
Bucket_Strict(complexity_score) ==
    IF complexity_score < 3 THEN "simple"
    ELSE IF complexity_score < 8 THEN "moderate"
    ELSE IF complexity_score < 15 THEN "complex"
    ELSE "very_complex"

\* The if/elif chain of lines 393-400.
Bucket(complexity_score) ==
    IF complexity_score <= 3 THEN "simple"
    ELSE IF complexity_score <= 8 THEN "moderate"
    ELSE IF complexity_score <= 15 THEN "complex"
    ELSE "very_complex"

\* The report built from self.elements and self.stats (the constant
\* legal_analysis_proof entry is left out).
_generate_legal_report(elements, stats) ==
    [summary |->
        [total_elements |-> Len(elements),
         files_analyzed |-> SumSeq([n \in 1..2 |-> stats[<<"txt_files", "md_files">>[n]]]),
         symbol_distribution |-> Tally([n \in 1..Len(elements) |-> elements[n].symbol_name], 1, <<>>),
         complexity_distribution |->
            Tally([n \in 1..Len(elements) |-> Bucket(elements[n].complexity_score)], 1, <<>>),
         legal_domain_distribution |-> Tally([n \in 1..Len(elements) |-> elements[n].legal_domain], 1, <<>>),
         file_stats |-> stats],
     elements |-> elements]

\* self.elements and self.stats after the loops of lines 365-378 over the
\* processed files done, found[n] being what analyze_legal_document returned
\* for the n-th of them.
Accumulated(done, found) ==
    LET key(k, what) == SubSeq(Files[k].ext, 2, Len(Files[k].ext)) \o what
    IN  [elements |-> Flatten(found),
         stats |-> [s \in StatKeys |->
                      SumSeq([n \in 1..Len(done) |->
                                IF s = key(done[n], "_files") THEN 1
                                ELSE IF s = key(done[n], "_elements") THEN Len(found[n])
                                ELSE 0])]]

\* return self._generate_legal_report(), next to the instance state it is
\* built from.
Reported(self) ==
    [elements |-> self.elements, stats |-> self.stats,
     report |-> _generate_legal_report(self.elements, self.stats)]

\* Instance a runs analyze_directory(directory): the accumulators are
\* reset, then extended with the elements of every processed file, and the
\* report built from them is returned.
\* self.elements and self.stats when the loops of analyze_directory end,
\* and the report then returned, when the files present exist.
analyze_directory(present, directory) ==
    LET done == ProcessedFiles(present, directory)
    IN  Reported(Accumulated(done, [n \in 1..Len(done) |-> FileAnalyses[done[n]]]))

AnalyzeDirectory(a, directory) ==
    \E run \in {analyze_directory(OnDisk, directory)} :
        /\ self_elements' = [self_elements EXCEPT ![a] = run.elements]
        /\ self_stats' = [self_stats EXCEPT ![a] = run.stats]
        /\ outcome' = [op |-> "analyze_directory", instance |-> a, directory |-> directory,
                       result |-> run.report]
        /\ UNCHANGED <<input_path, input_content, calls, threads>>

(***************************************************************************)
(* Spec: one document, drawn from Contents, is analysed once.              *)
(***************************************************************************)
Init ==
    /\ input_path \in FilePaths
    /\ input_content \in Contents
    /\ calls = <<>>
    /\ self_elements = [a \in Instances |-> NewElements]
    /\ self_stats = [a \in Instances |-> NewStats]
    /\ outcome = NoOutcome
    /\ threads = NoThreads

Next == calls = <<>> /\ AnalyzeLegalDocument(1, input_path, input_content)

Spec == Init /\ [][Next]_vars

(***************************************************************************)
(* SpecCalls: two analyser instances analyse the files of the directory    *)
(* tree, one by one or by directory, in any order.                         *)
(***************************************************************************)
InitCalls ==
    /\ input_path = ""
    /\ input_content = ""
    /\ calls = <<>>
    /\ self_elements = [a \in Instances |-> NewElements]
    /\ self_stats = [a \in Instances |-> NewStats]
    /\ outcome = NoOutcome
    /\ threads = NoThreads

\* The files whose text a caller hands to analyze_legal_document itself.
CallFiles == {k \in 1..Len(Files) : Files[k].dir = "contracts" /\ Files[k].ext \in {".txt", ".md"} /\ Files[k].utf8}

NextCalls ==
    \/ \E a \in Instances, k \in CallFiles :
          AnalyzeLegalDocument(a, Files[k].path, Files[k].content)
    \/ \E a \in Instances, d \in Directories : AnalyzeDirectory(a, d)

SpecCalls == InitCalls /\ [][NextCalls]_vars

(***************************************************************************)
(* SpecReports: a LegalDocumentProcessor.  Its analyser (instance 1) runs  *)
(* any number of directory analyses, then the processor serves one call.   *)
(***************************************************************************)
\* process_text(text): source_name takes its default.
ProcessText(text) ==
    /\ outcome' = [op |-> "process_text", text |-> text,
                   result |-> process_text(text, "direct_input")]
    /\ UNCHANGED <<input_path, input_content, calls, self_elements, self_stats, threads>>

ProcessDocument(document_path) ==
    /\ outcome' = [op |-> "process_document", document_path |-> document_path,
                   result |-> process_document(document_path)]
    /\ UNCHANGED <<input_path, input_content, calls, self_elements, self_stats, threads>>

BatchProcess(document_paths) ==
    /\ outcome' = [op |-> "batch_process", document_paths |-> document_paths,
                   result |-> BatchResults[document_paths]]
    /\ UNCHANGED <<input_path, input_content, calls, self_elements, self_stats, threads>>

\* No call of the processor has returned yet.
Unserved == outcome.op \in {"none", "analyze_directory"}

NextReports ==
    \/ \E d \in Directories : Unserved /\ AnalyzeDirectory(1, d)
    \/ \E text \in Texts : Unserved /\ ProcessText(text)
    \/ \E path \in DocumentPaths : Unserved /\ ProcessDocument(path)
    \/ \E paths \in BatchLists : Unserved /\ BatchProcess(paths)

SpecReports == InitCalls /\ [][NextReports]_vars

(***************************************************************************)
(* SpecThreads: threads share the analyser instances.  Each thread calls   *)
(* one method, analyze_legal_document on a file or analyze_directory, and  *)
(* runs it statement by statement; the statements of different threads     *)
(* interleave in any order.  (CPython also switches threads inside a       *)
(* statement, which adds interleavings and removes none.)                  *)
(***************************************************************************)
\* What the four extractors return for each file of the directory tree,
\* computed once.
structure_elements ==
    [k \in 1..Len(Files) |->
       _analyze_document_structure(Files[k].path, Files[k].content, split(Files[k].content))] @@ <<>>

flow_elements ==
    [k \in 1..Len(Files) |->
       _analyze_legal_flows(Files[k].path, Files[k].content, split(Files[k].content))] @@ <<>>

decision_elements ==
    [k \in 1..Len(Files) |->
       _analyze_legal_decisions(Files[k].path, Files[k].content, split(Files[k].content))] @@ <<>>

impact_elements ==
    [k \in 1..Len(Files) |->
       _analyze_legal_impacts(Files[k].path, Files[k].content, split(Files[k].content))] @@ <<>>

\* Thread t calls analyze_legal_document(Files[k].path, Files[k].content)
\* on instance a and runs `elements = []`.
CallAnalyzeLegalDocument(t, a, k) ==
    /\ threads[t].op = "none"
    /\ threads' = [threads EXCEPT ![t] = [op |-> "analyze_legal_document", instance |-> a,
                                          file |-> k, pc |-> "structure", elements |-> <<>>]]
    /\ UNCHANGED <<input_path, input_content, calls, outcome, self_elements, self_stats>>

\* Variant: elements is the instance's accumulator self.elements, not a
\* list of the call's own.
Extend_Shared(t, found, pc) ==
    /\ self_elements' = [self_elements EXCEPT ![threads[t].instance] = @ \o found]
    /\ threads' = [threads EXCEPT ![t].elements = self_elements'[threads[t].instance],
                                  ![t].pc = pc]
    /\ UNCHANGED <<input_path, input_content, calls, outcome, self_stats>>

\* One extractor call and elements.extend(found) on the local list; the
\* thread goes on at pc.
Extend(t, found, pc) ==
    /\ threads' = [threads EXCEPT ![t].elements = @ \o found, ![t].pc = pc]
    /\ UNCHANGED <<input_path, input_content, calls, outcome, self_elements, self_stats>>

\* The next of the four extractor statements of lines 110-124.
Extract(t) ==
    /\ threads[t].op = "analyze_legal_document"
    /\ \/ threads[t].pc = "structure" /\ Extend(t, structure_elements[threads[t].file], "flows")
       \/ threads[t].pc = "flows" /\ Extend(t, flow_elements[threads[t].file], "decisions")
       \/ threads[t].pc = "decisions" /\ Extend(t, decision_elements[threads[t].file], "impacts")
       \/ threads[t].pc = "impacts" /\ Extend(t, impact_elements[threads[t].file], "return")

\* return elements
ReturnElements(t) ==
    /\ threads[t].op = "analyze_legal_document"
    /\ threads[t].pc = "return"
    /\ threads' = [threads EXCEPT ![t] = [op |-> "analyze_legal_document",
                                          instance |-> threads[t].instance,
                                          file |-> threads[t].file, pc |-> "done",
                                          returned |-> threads[t].elements]]
    /\ UNCHANGED <<input_path, input_content, calls, outcome, self_elements, self_stats>>

\* Thread t calls analyze_directory(directory) on instance a.
CallAnalyzeDirectory(t, a, directory) ==
    /\ threads[t].op = "none"
    /\ threads' = [threads EXCEPT ![t] = [op |-> "analyze_directory", instance |-> a,
                                          directory |-> directory, pc |-> "reset_elements",
                                          n |-> 1, elements |-> <<>>]]
    /\ UNCHANGED <<input_path, input_content, calls, outcome, self_elements, self_stats>>

\* The thread is in analyze_directory at pc.
InDirectory(t, pc) == threads[t].op = "analyze_directory" /\ threads[t].pc = pc

\* The files the loops of the thread's call process, in order.
Done(t) == ProcessedFiles(OnDisk, threads[t].directory)

\* f'{ext[1:]}' + what for file k
StatKey(k, what) == SubSeq(Files[k].ext, 2, Len(Files[k].ext)) \o what

\* self.elements = []
ResetElements(t) ==
    /\ InDirectory(t, "reset_elements")
    /\ self_elements' = [self_elements EXCEPT ![threads[t].instance] = <<>>]
    /\ threads' = [threads EXCEPT ![t].pc = "reset_stats"]
    /\ UNCHANGED <<input_path, input_content, calls, outcome, self_stats>>

\* self.stats = defaultdict(int), and on to the first file, if any.
ResetStats(t) ==
    /\ InDirectory(t, "reset_stats")
    /\ self_stats' = [self_stats EXCEPT ![threads[t].instance] = NewStats]
    /\ threads' = [threads EXCEPT ![t].pc = IF Done(t) = <<>> THEN "report" ELSE "analyze"]
    /\ UNCHANGED <<input_path, input_content, calls, outcome, self_elements>>

\* content = f.read(); elements = self.analyze_legal_document(...)
AnalyzeFile(t) ==
    /\ InDirectory(t, "analyze")
    /\ threads' = [threads EXCEPT ![t].elements = FileAnalyses[Done(t)[threads[t].n]],
                                  ![t].pc = "extend"]
    /\ UNCHANGED <<input_path, input_content, calls, outcome, self_elements, self_stats>>

\* self.elements.extend(elements)
ExtendAccumulator(t) ==
    /\ InDirectory(t, "extend")
    /\ self_elements' = [self_elements EXCEPT ![threads[t].instance] = @ \o threads[t].elements]
    /\ threads' = [threads EXCEPT ![t].pc = "count_file"]
    /\ UNCHANGED <<input_path, input_content, calls, outcome, self_stats>>

\* self.stats[f'{ext[1:]}_files'] += 1
CountFile(t) ==
    /\ InDirectory(t, "count_file")
    /\ self_stats' = [self_stats EXCEPT
                        ![threads[t].instance][StatKey(Done(t)[threads[t].n], "_files")] = @ + 1]
    /\ threads' = [threads EXCEPT ![t].pc = "count_elements"]
    /\ UNCHANGED <<input_path, input_content, calls, outcome, self_elements>>

\* self.stats[f'{ext[1:]}_elements'] += len(elements), and on to the next
\* file, if any.
CountElements(t) ==
    /\ InDirectory(t, "count_elements")
    /\ self_stats' = [self_stats EXCEPT
                        ![threads[t].instance][StatKey(Done(t)[threads[t].n], "_elements")] =
                            @ + Len(threads[t].elements)]
    /\ threads' = [threads EXCEPT ![t].n = @ + 1,
                                  ![t].pc = IF threads[t].n < Len(Done(t)) THEN "analyze" ELSE "report"]
    /\ UNCHANGED <<input_path, input_content, calls, outcome, self_elements>>

\* The thread's call has returned what.
Finished(t, what) ==
    [op |-> "analyze_directory", instance |-> threads[t].instance,
     directory |-> threads[t].directory, pc |-> "done", returned |-> what]

\* Variant: the report is built from accumulators of the call's own, which
\* hold what its loops put there.
ReturnReport_Private(t) ==
    /\ InDirectory(t, "report")
    /\ threads' = [threads EXCEPT ![t] = Finished(t, analyze_directory(OnDisk, threads[t].directory).report)]
    /\ UNCHANGED <<input_path, input_content, calls, outcome, self_elements, self_stats>>

\* return self._generate_legal_report()
ReturnReport(t) ==
    /\ InDirectory(t, "report")
    /\ threads' = [threads EXCEPT ![t] =
                      Finished(t, _generate_legal_report(self_elements[threads[t].instance],
                                                         self_stats[threads[t].instance]))]
    /\ UNCHANGED <<input_path, input_content, calls, outcome, self_elements, self_stats>>

NextThreads ==
    \E t \in Threads :
        \/ \E a \in Instances, k \in CallFiles : CallAnalyzeLegalDocument(t, a, k)
        \/ Extract(t)
        \/ ReturnElements(t)
        \/ \E a \in Instances, d \in Directories : CallAnalyzeDirectory(t, a, d)
        \/ ResetElements(t)
        \/ ResetStats(t)
        \/ AnalyzeFile(t)
        \/ ExtendAccumulator(t)
        \/ CountFile(t)
        \/ CountElements(t)
        \/ ReturnReport(t)

SpecThreads == InitCalls /\ [][NextThreads]_vars

(***************************************************************************)
(* core_lite.py: Python's float.                                           *)
(*                                                                         *)
(* A float is an IEEE 754 double.  The doubles of the model lie in [0, 4)  *)
(* and are written in binary, most significant digit first: two digits     *)
(* before the point and FractionBits after it.  The arithmetic operations  *)
(* compute the exact result and round it to nearest, ties to even, at      *)
(* MantissaBits significant digits, as the hardware does.                  *)
(***************************************************************************)
FractionBits == 60
FloatBits == 2 + FractionBits
MantissaBits == 53

\* 0.0
FloatZero == SubSeq([i \in 1..FloatBits |-> 0], 1, FloatBits)

\* The binary digits of a hexadecimal digit.
HexBits(h) == <<(h \div 8) % 2, (h \div 4) % 2, (h \div 2) % 2, h % 2>>

\* float.fromhex('0x1.<hex>p<e>'): the double 1.<hex> * 2^e, e <= 0, hex
\* being the thirteen hexadecimal digits of the mantissa.
FromHex(hex, e) ==
    LET mantissa == <<1>> \o Flatten([n \in 1..Len(hex) |-> HexBits(hex[n])])
    IN  SubSeq(FloatZero, 1, 1 - e) \o mantissa
          \o SubSeq(FloatZero, 1, FloatBits - (1 - e) - Len(mantissa))

\* The float literals of core_lite.py.
Float_0_1  == FromHex(<<9, 9, 9, 9, 9, 9, 9, 9, 9, 9, 9, 9, 10>>, -4)
Float_0_15 == FromHex(<<3, 3, 3, 3, 3, 3, 3, 3, 3, 3, 3, 3, 3>>, -3)
Float_0_2  == FromHex(<<9, 9, 9, 9, 9, 9, 9, 9, 9, 9, 9, 9, 10>>, -3)
Float_0_3  == FromHex(<<3, 3, 3, 3, 3, 3, 3, 3, 3, 3, 3, 3, 3>>, -2)
Float_1_0  == <<0, 1>> \o SubSeq(FloatZero, 1, FractionBits)

\* The carry into digit i of x + y: some digit after i has two ones, and
\* every digit between has exactly one.
CarryInto(x, y, i) ==
    IF \E j \in (i + 1)..FloatBits :
          x[j] + y[j] = 2 /\ \A k \in (i + 1)..(j - 1) : x[k] + y[k] = 1
      THEN 1 ELSE 0

\* x + y computed exactly (the sums of the model stay below 4).
ExactSum(x, y) ==
    SubSeq([i \in 1..FloatBits |-> (x[i] + y[i] + CarryInto(x, y, i)) % 2], 1, FloatBits)

\* The first n digits of a double, the others cleared.
Truncated(d, n) == SubSeq(d, 1, n) \o SubSeq(FloatZero, 1, FloatBits - n)

\* One unit in digit n.
UnitAt(n) == SubSeq(FloatZero, 1, n - 1) \o <<1>> \o SubSeq(FloatZero, 1, FloatBits - n)

\* The digit of d that holds its last mantissa digit.
LastDigit(d) == Min({i \in 1..FloatBits : d[i] = 1}) + MantissaBits - 1

\* Rounding to nearest, ties to even: the digits after the last mantissa
\* digit are dropped, and one unit in the last place is added when they
\* are more than half a unit, or exactly half and the last digit is odd.
RoundToDouble(d) ==
    IF d = FloatZero \/ LastDigit(d) >= FloatBits THEN d
    ELSE IF d[LastDigit(d) + 1] = 1
            /\ (d[LastDigit(d)] = 1 \/ \E i \in (LastDigit(d) + 2)..FloatBits : d[i] = 1)
           THEN ExactSum(Truncated(d, LastDigit(d)), UnitAt(LastDigit(d)))
           ELSE Truncated(d, LastDigit(d))

\* x + y
FloatAdd(x, y) == RoundToDouble(ExactSum(x, y))

RECURSIVE ExactTimes(_, _)
\* n * x computed exactly, for an int n >= 0.
ExactTimes(n, x) == IF n = 0 THEN FloatZero ELSE ExactSum(x, ExactTimes(n - 1, x))

\* n * x for an int n: the int converts to a float exactly, and the product
\* is rounded once.
FloatTimes(n, x) == RoundToDouble(ExactTimes(n, x))

\* x / 2: the digits move one place to the right (exact for the doubles of
\* the model, whose last digit is 0).
FloatHalf(x) == <<0>> \o SubSeq(x, 1, FloatBits - 1)

\* x <= y
FloatLeq(x, y) ==
    \/ x = y
    \/ \E i \in 1..FloatBits : x[i] < y[i] /\ \A j \in 1..(i - 1) : x[j] = y[j]

\* min(x, y)
FloatMin(x, y) == IF FloatLeq(x, y) THEN x ELSE y

(***************************************************************************)
(* core_lite.py: MayaSymbolEncoder, SymbolicLegalClassifierLite and         *)
(* MayaLegalAnalyzerLite.                                                   *)
(*                                                                         *)
(* The glyphs of the symbol map and the values of LegalSymbol are written  *)
(* as ASCII names: the glyph of a concept as "maya:" and the concept, the  *)
(* value of a LegalSymbol member as the member's name.  The eight glyphs   *)
(* of the source differ from each other, and so do the eight names.        *)
(***************************************************************************)
\* MayaSymbolEncoder._initialize_symbol_mapping(): the dict in insertion
\* order.
_initialize_symbol_mapping ==
    <<[key |-> "justice",  val |-> "maya:justice"],
      [key |-> "law",      val |-> "maya:law"],
      [key |-> "court",    val |-> "maya:court"],
      [key |-> "contract", val |-> "maya:contract"],
      [key |-> "penalty",  val |-> "maya:penalty"],
      [key |-> "evidence", val |-> "maya:evidence"],
      [key |-> "rights",   val |-> "maya:rights"],
      [key |-> "statute",  val |-> "maya:statute"]>>

\* any(word in text for word in words)
any_in(words, text) == \E n \in 1..Len(words) : contains(text, words[n])

\* Variant: the commercial keywords are tried before the criminal ones.
_classify_legal_category_CommercialFirst(text) ==
    IF any_in(<<"contract", "agreement", "commercial">>, text) THEN "commercial_law"
    ELSE IF any_in(<<"criminal", "crime", "prosecution">>, text) THEN "criminal_law"
    ELSE IF any_in(<<"constitution", "fundamental", "rights">>, text) THEN "constitutional_law"
    ELSE "general_law"

\* MayaSymbolEncoder._classify_legal_category(text)
_classify_legal_category(text) ==
    IF any_in(<<"criminal", "crime", "prosecution">>, text) THEN "criminal_law"
    ELSE IF any_in(<<"contract", "agreement", "commercial">>, text) THEN "commercial_law"
    ELSE IF any_in(<<"constitution", "fundamental", "rights">>, text) THEN "constitutional_law"
    ELSE "general_law"

RECURSIVE EncodeFrom_PerOccurrence(_, _, _, _)
\* Variant: a concept is encoded once for each of its occurrences.
EncodeFrom_PerOccurrence(symbol_map, text_lower, k, found) ==
    IF k > Len(symbol_map) THEN found
    ELSE EncodeFrom_PerOccurrence(symbol_map, text_lower, k + 1,
           [encoded_symbols |-> found.encoded_symbols
                                  \o [n \in 1..count(text_lower, symbol_map[k].key) |-> symbol_map[k].val],
            confidence |-> IF contains(text_lower, symbol_map[k].key)
                             THEN FloatAdd(found.confidence, Float_0_1)
                             ELSE found.confidence])

RECURSIVE EncodeFrom(_, _, _, _)
\* The loop of encode over the entries k.. of the symbol map: found holds
\* encoded_symbols and confidence as gathered so far.
EncodeFrom(symbol_map, text_lower, k, found) ==
    IF k > Len(symbol_map) THEN found
    ELSE EncodeFrom(symbol_map, text_lower, k + 1,
           IF contains(text_lower, symbol_map[k].key)
             THEN [encoded_symbols |-> Append(found.encoded_symbols, symbol_map[k].val),
                   confidence |-> FloatAdd(found.confidence, Float_0_1)]
             ELSE found)

\* The MayaLegalEncoding encode builds from what its loop found.
MayaLegalEncoding(text, found, legal_category) ==
    [original_text |-> text,
     encoded_symbols |-> found.encoded_symbols,
     confidence_score |-> FloatMin(found.confidence, Float_1_0),
     legal_category |-> legal_category,
     jurisdiction |-> "multi"]

\* MayaSymbolEncoder.encode(text)
encode(text) ==
    MayaLegalEncoding(text,
                      EncodeFrom(_initialize_symbol_mapping, lower(text), 1,
                                 [encoded_symbols |-> <<>>, confidence |-> FloatZero]),
                      _classify_legal_category(lower(text)))

\* symbol_keywords of _extract_legal_symbols, in insertion order.
symbol_keywords ==
    <<[key |-> "JUSTICE",     val |-> <<"justice", "fair", "equitable">>],
      [key |-> "STATUTE",     val |-> <<"law", "statute", "regulation">>],
      [key |-> "AUTHORITY",   val |-> <<"court", "judge", "authority">>],
      [key |-> "ENFORCEMENT", val |-> <<"penalty", "sanction", "enforcement">>],
      [key |-> "CONTRACT",    val |-> <<"contract", "agreement", "covenant">>],
      [key |-> "EVIDENCE",    val |-> <<"evidence", "proof", "testimony">>],
      [key |-> "PENALTY",     val |-> <<"fine", "punishment", "penalty">>],
      [key |-> "RIGHTS",      val |-> <<"rights", "freedom", "liberty">>]>>

\* SymbolicLegalClassifierLite._extract_legal_symbols(text)
_extract_legal_symbols(text) ==
    LET hit == SelectSeq(symbol_keywords, LAMBDA entry : any_in(entry.val, lower(text)))
    IN  [n \in 1..Len(hit) |-> hit[n].key]

\* symbol in symbols
in_list(symbol, symbols) == \E n \in 1..Len(symbols) : symbols[n] = symbol

\* SymbolicLegalClassifierLite._symbolic_analysis(symbols); complexity_score
\* (len(symbols) * 0.5) is left out.
_symbolic_analysis(symbols) ==
    [confidence |-> FloatMin(FloatAdd(FloatTimes(Len(symbols), Float_0_1), Float_0_3), Float_1_0),
     domain |-> IF in_list("JUSTICE", symbols) /\ in_list("AUTHORITY", symbols) THEN "constitutional_law"
                ELSE IF in_list("CONTRACT", symbols) THEN "contract_law"
                ELSE IF in_list("ENFORCEMENT", symbols) /\ in_list("PENALTY", symbols) THEN "criminal_law"
                ELSE "general_law",
     symbol_count |-> Len(symbols)]

\* The dict classify builds from the symbols and their analysis.
Classification(symbols, classification) ==
    [symbols |-> symbols,
     classification |-> classification,
     confidence |-> classification.confidence,
     legal_domain |-> classification.domain]

\* SymbolicLegalClassifierLite.classify(document)
classify(document) ==
    Classification(_extract_legal_symbols(document),
                   _symbolic_analysis(_extract_legal_symbols(document)))

\* The boost _fuse_analysis adds for a pair of categories.
confidence_boost(maya_category, symbolic_domain) ==
    IF maya_category = "criminal_law" /\ symbolic_domain = "criminal_law" THEN Float_0_2
    ELSE IF maya_category = "commercial_law" /\ symbolic_domain = "contract_law" THEN Float_0_15
    ELSE FloatZero

\* combined_confidence of _fuse_analysis
combined_confidence(maya_encoding, symbolic_analysis) ==
    FloatHalf(FloatAdd(maya_encoding.confidence_score, symbolic_analysis.confidence))

\* Variant: the boosted confidence is not capped at 1.0.
_fuse_analysis_Uncapped(maya_encoding, symbolic_analysis) ==
    [final_category |-> maya_encoding.legal_category,
     confidence |-> FloatAdd(combined_confidence(maya_encoding, symbolic_analysis),
                             confidence_boost(maya_encoding.legal_category,
                                              symbolic_analysis.classification.domain)),
     maya_symbols |-> maya_encoding.encoded_symbols,
     symbolic_elements |-> symbolic_analysis.symbols,
     fusion_score |-> combined_confidence(maya_encoding, symbolic_analysis)]

\* MayaLegalAnalyzerLite._fuse_analysis(maya_encoding, symbolic_analysis);
\* final_category is maya_category in each of the three branches.
_fuse_analysis(maya_encoding, symbolic_analysis) ==
    [final_category |-> maya_encoding.legal_category,
     confidence |-> FloatMin(FloatAdd(combined_confidence(maya_encoding, symbolic_analysis),
                                      confidence_boost(maya_encoding.legal_category,
                                                       symbolic_analysis.classification.domain)),
                             Float_1_0),
     maya_symbols |-> maya_encoding.encoded_symbols,
     symbolic_elements |-> symbolic_analysis.symbols,
     fusion_score |-> combined_confidence(maya_encoding, symbolic_analysis)]

\* The dict MayaLegalAnalyzerLite.analyze_legal_document returns; the
\* timestamp of analysis_metadata, the clock's reading, is left out.
LiteAnalysis(document, maya_encoding, symbolic_analysis) ==
    [maya_encoding |-> [symbols |-> maya_encoding.encoded_symbols,
                        confidence |-> maya_encoding.confidence_score,
                        category |-> maya_encoding.legal_category,
                        jurisdiction |-> maya_encoding.jurisdiction],
     symbolic_analysis |-> symbolic_analysis,
     fusion_result |-> _fuse_analysis(maya_encoding, symbolic_analysis),
     analysis_metadata |-> [document_length |-> Len(document), analysis_version |-> "0.1.0-lite"]]

(***************************************************************************)
(* SpecLite: the lite analyser serves one call: encode or                  *)
(* analyze_legal_document on a text, or _fuse_analysis on an encoding and  *)
(* a classification.                                                       *)
(***************************************************************************)
\* The words the texts are made of: the concepts of the symbol map and the
\* keywords of the categories.
Vocabulary ==
    <<"justice", "law", "court", "contract", "penalty", "evidence", "rights", "statute",
      "criminal", "crime", "prosecution", "agreement", "commercial", "constitution", "fundamental">>

RECURSIVE JoinWords(_)
\* ' '.join(words)
JoinWords(words) ==
    IF words = <<>> THEN ""
    ELSE IF Len(words) = 1 THEN words[1]
    ELSE words[1] \o " " \o JoinWords(Tail(words))

\* The text made of the words of Vocabulary that are in the set chosen.
TextOf(chosen) == JoinWords(SelectSeq(Vocabulary, LAMBDA w : w \in chosen))

\* The texts of tests/test_core.py and some about letter case, words inside
\* longer words and repeated words.
LiteDocs ==
    {"The court shall ensure justice is served",
     "The defendant committed a crime and faces prosecution",
     "This contract establishes commercial agreement terms",
     "This amendment protects fundamental constitutional rights",
     "JUSTICE Law law", "Unlawful copyrights", "the law of the law", "crime penalty court sanction",
     "By LAW the court weighs evidence of rights under contract law and statute"}

\* Every choice of concepts, and every choice of up to MaxWords words.
LiteTexts ==
    LiteDocs
    \cup {TextOf(chosen) : chosen \in SUBSET {Vocabulary[n] : n \in 1..8}}
    \cup {TextOf(chosen) : chosen \in {c \in SUBSET {Vocabulary[n] : n \in 1..Len(Vocabulary)} :
                                         Cardinality(c) <= MaxWords}}

RECURSIVE RepeatedSum(_)
\* 0.1 added n times to 0.0, as the loop of encode does.
RepeatedSum(n) == IF n = 0 THEN FloatZero ELSE FloatAdd(RepeatedSum(n - 1), Float_0_1)

\* The confidences handed to _fuse_analysis: those encode and classify
\* can produce (0.0 up to 0.7999999999999999, and 0.3 up to 1.0).
Confidences ==
    {RepeatedSum(n) : n \in 0..8} \cup {_symbolic_analysis([k \in 1..n |-> "JUSTICE"]).confidence : n \in 0..8}

Categories == {"criminal_law", "commercial_law", "constitutional_law", "general_law"}
LiteDomains == {"constitutional_law", "contract_law", "criminal_law", "general_law"}

Encode(text) ==
    /\ outcome' = [op |-> "encode", text |-> text, result |-> encode(text)]
    /\ UNCHANGED <<input_path, input_content, calls, self_elements, self_stats, threads>>

\* _fuse_analysis on an encoding and a classification built by a caller,
\* as tests/test_core.py does.
Fuse(category, maya_confidence, domain, confidence) ==
    /\ outcome' = [op |-> "_fuse_analysis",
                   maya_category |-> category, maya_confidence |-> maya_confidence,
                   symbolic_domain |-> domain, symbolic_confidence |-> confidence,
                   result |-> _fuse_analysis(
                                 [original_text |-> "test", encoded_symbols |-> <<"maya:justice">>,
                                  confidence_score |-> maya_confidence,
                                  legal_category |-> category, jurisdiction |-> "multi"],
                                 [symbols |-> <<"JUSTICE">>, confidence |-> confidence,
                                  classification |-> [domain |-> domain]])]
    /\ UNCHANGED <<input_path, input_content, calls, self_elements, self_stats, threads>>

\* MayaLegalAnalyzerLite.analyze_legal_document(document)
AnalyzeLite(document) ==
    /\ outcome' = [op |-> "lite_analyze_legal_document", document |-> document,
                   result |-> LiteAnalysis(document, encode(document), classify(document))]
    /\ UNCHANGED <<input_path, input_content, calls, self_elements, self_stats, threads>>

NextLite ==
    \/ \E text \in LiteTexts : outcome = NoOutcome /\ Encode(text)
    \/ \E category \in Categories, domain \in LiteDomains, c1 \in Confidences, c2 \in Confidences :
          outcome = NoOutcome /\ Fuse(category, c1, domain, c2)
    \/ \E text \in LiteTexts : outcome = NoOutcome /\ AnalyzeLite(text)

SpecLite == InitCalls /\ [][NextLite]_vars

(***************************************************************************)
(* Properties.                                                             *)
(***************************************************************************)
\* The elements of the list ret with the given symbol_name and line number.
ElemsAt(ret, sym, ln) == SelectSeq(ret, LAMBDA e : e.symbol_name = sym /\ e.line_start = ln)

\* The name fields of a list of elements.
Names(es) == [n \in 1..Len(es) |-> es[n].name]

\* C1. Determinism: two analyze_legal_document calls with the same
\* file_path and content return the same list, field by field, whichever
\* instance ran them and whatever that instance had analysed before.
C1_Determinism ==
    \A i, j \in DOMAIN calls :
        (calls[i].file_path = calls[j].file_path /\ calls[i].content = calls[j].content)
            => calls[i].returned = calls[j].returned

\* Two calls on the same document by different instances, one fresh and one
\* holding the elements of a directory analysis, with a non-empty result.
C1_Witness ==
    \E i, j \in DOMAIN calls :
        /\ calls[i].file_path = calls[j].file_path /\ calls[i].content = calls[j].content
        /\ calls[i].instance # calls[j].instance
        /\ calls[i].held = 0 /\ calls[j].held > 0
        /\ calls[i].returned # <<>>
        /\ calls[i].returned = calls[j].returned

DomainIndex(d) == CHOOSE k \in 1..Len(DomainOrder) : DomainOrder[k] = d

\* C2. The domain _determine_legal_domain returns has the maximal score,
\* and every domain earlier in the order constitutional, criminal, civil,
\* commercial, procedural scores strictly less.
C2_DomainIsFirstMaximal ==
    \A c \in DOMAIN calls :
        LET d == _determine_legal_domain(calls[c].content)
            score == [k \in 1..Len(DomainOrder) |-> DomainScore(DomainOrder[k], calls[c].content)]
        IN  /\ DomainOrder = <<"constitutional", "criminal", "civil", "commercial", "procedural">>
            /\ \E k \in 1..Len(DomainOrder) : DomainOrder[k] = d
            /\ \A k \in 1..Len(DomainOrder) :
                  /\ score[k] <= score[DomainIndex(d)]
                  /\ k < DomainIndex(d) => score[k] < score[DomainIndex(d)]

\* A document on which commercial and procedural tie with the maximal,
\* non-zero score, whose elements carry the domain commercial.
C2_Witness ==
    \E c \in DOMAIN calls :
        LET score == [k \in 1..Len(DomainOrder) |-> DomainScore(DomainOrder[k], calls[c].content)]
        IN  /\ score[4] = score[5] /\ score[4] > 0
            /\ \A k \in 1..3 : score[k] < score[4]
            /\ calls[c].returned # <<>>
            /\ \A n \in DOMAIN calls[c].returned : calls[c].returned[n].legal_domain = "commercial"

\* C3. Per line: at most 1 DECISION, 1 IMPACT, 4 FLOW and 3 STRUCTURE
\* elements.
C3_PerLineCardinality ==
    \A c \in DOMAIN calls :
        \A ln \in 1..Len(split(calls[c].content)) :
            /\ Len(ElemsAt(calls[c].returned, "DECISION", ln)) <= 1
            /\ Len(ElemsAt(calls[c].returned, "IMPACT", ln)) <= 1
            /\ Len(ElemsAt(calls[c].returned, "FLOW", ln)) <= 4
            /\ Len(ElemsAt(calls[c].returned, "STRUCTURE", ln)) <= 3

\* A line with four FLOW elements on which a flow pattern occurs twice.
C3_Witness ==
    \E c \in DOMAIN calls :
        \E ln \in 1..Len(split(calls[c].content)) :
            /\ Len(ElemsAt(calls[c].returned, "FLOW", ln)) = 4
            /\ \E p \in 1..Len(flow_patterns) :
                  Len(finditer(flow_patterns[p], split(calls[c].content)[ln], TRUE)) > 1

Ceiling == [STRUCTURE |-> 10, FLOW |-> 15, DECISION |-> 20, IMPACT |-> 25]

\* C4. Every element's complexity_score lies between 0 and the ceiling of
\* its category.
C4_ScoreBounds ==
    \A c \in DOMAIN calls :
        \A n \in DOMAIN calls[c].returned :
            LET e == calls[c].returned[n]
            IN  0 <= e.complexity_score /\ e.complexity_score <= Ceiling[e.symbol_name]

\* An element scored exactly at its ceiling on a line whose modal verbs and
\* time constraints would add up to more.
C4_Witness ==
    \E c \in DOMAIN calls :
        \E n \in DOMAIN calls[c].returned :
            LET e == calls[c].returned[n]
            IN  /\ e.symbol_name = "FLOW" /\ e.complexity_score = 15
                /\ count(lower(e.content_snippet), "day") >= 2
                /\ count(lower(e.content_snippet), "must") >= 1

CategoryPatterns ==
    [STRUCTURE |-> section_patterns, FLOW |-> flow_patterns,
     DECISION |-> decision_patterns, IMPACT |-> impact_patterns]

CategoryLabel ==
    [STRUCTURE |-> "Legal document structure", FLOW |-> "Legal process flow",
     DECISION |-> "Legal decision point", IMPACT |-> "High-impact legal consequence"]

\* The text the patterns of a category are matched against on a line.
Subject(sym, line) == IF sym = "STRUCTURE" THEN strip(line) ELSE line

\* C5. Every element has line_start = line_end = the 1-based index of its
\* line, within the document; content_snippet is that line trimmed; name is
\* what a pattern of its category matches on the line; description is the
\* category label, ": " and the name; element_type is symbol_name in lower
\* case; jurisdiction is "multi".
C5_ElementFields ==
    \A c \in DOMAIN calls :
        \A n \in DOMAIN calls[c].returned :
            LET e == calls[c].returned[n]
                lines == split(calls[c].content)
            IN  /\ e.line_start = e.line_end
                /\ 1 <= e.line_start /\ e.line_start <= Len(lines)
                /\ e.content_snippet = strip(lines[e.line_start])
                /\ \E p \in 1..Len(CategoryPatterns[e.symbol_name]) :
                      LET subject == Subject(e.symbol_name, lines[e.line_start])
                          m == search(CategoryPatterns[e.symbol_name][p], subject, TRUE)
                      IN  m # NoMatch /\ e.name = group0(subject, m)
                /\ e.description = CategoryLabel[e.symbol_name] \o ": " \o e.name
                /\ e.element_type = lower(e.symbol_name)
                /\ e.jurisdiction = "multi"
                /\ e.file_path = calls[c].file_path

\* An element of the second line of a document, whose line carries leading
\* white space that the snippet has lost.
C5_Witness ==
    \E c \in DOMAIN calls :
        \E n \in DOMAIN calls[c].returned :
            LET e == calls[c].returned[n]
            IN  /\ e.line_start = 2
                /\ e.content_snippet # split(calls[c].content)[2]
                /\ e.name # e.content_snippet

\* C6. All elements of one call carry the legal_domain that
\* _determine_legal_domain gives for the whole content.
C6_DocumentLevelDomain ==
    \A c \in DOMAIN calls :
        LET domain == _determine_legal_domain(calls[c].content)
        IN  \A n \in DOMAIN calls[c].returned : calls[c].returned[n].legal_domain = domain

\* Elements of two categories and two lines, one of them on a line that on
\* its own would be classified differently from the document.
C6_Witness ==
    \E c \in DOMAIN calls :
        \E m, n \in DOMAIN calls[c].returned :
            LET e == calls[c].returned[m]
                f == calls[c].returned[n]
            IN  /\ e.symbol_name # f.symbol_name
                /\ e.line_start # f.line_start
                /\ e.legal_domain = f.legal_domain
                /\ _determine_legal_domain(split(calls[c].content)[e.line_start]) # e.legal_domain

CategoryRank == [STRUCTURE |-> 1, FLOW |-> 2, DECISION |-> 3, IMPACT |-> 4]

\* The texts of the first match of each pattern of the list that matches
\* the subject, in pattern-list order.
FirstMatches(patterns, subject) ==
    Flatten([p \in 1..Len(patterns) |->
               LET m == search(patterns[p], subject, TRUE)
               IN  IF m # NoMatch THEN <<group0(subject, m)>> ELSE <<>>])

\* C7. The returned list has its STRUCTURE elements first, then FLOW, then
\* DECISION, then IMPACT; within a category line numbers do not decrease;
\* the elements of one category and line come in pattern-list order.
C7_OutputOrdering ==
    \A c \in DOMAIN calls :
        LET ret == calls[c].returned
            lines == split(calls[c].content)
        IN  /\ \A m, n \in DOMAIN ret :
                  m < n =>
                    /\ CategoryRank[ret[m].symbol_name] <= CategoryRank[ret[n].symbol_name]
                    /\ ret[m].symbol_name = ret[n].symbol_name => ret[m].line_start <= ret[n].line_start
            /\ \A sym \in DOMAIN CategoryRank, ln \in 1..Len(lines) :
                  LET names == Names(ElemsAt(ret, sym, ln))
                      firsts == FirstMatches(CategoryPatterns[sym], Subject(sym, lines[ln]))
                  IN  \E ix \in [1..Len(names) -> 1..Len(firsts)] :
                         /\ \A k \in 1..Len(names) : names[k] = firsts[ix[k]]
                         /\ \A k \in 1..(Len(names) - 1) : ix[k] < ix[k + 1]

\* A list in which an element of an earlier category lies on a later line
\* than an element of a later category, and a line has two FLOW elements.
C7_Witness ==
    \E c \in DOMAIN calls :
        LET ret == calls[c].returned
        IN  /\ \E m, n \in DOMAIN ret :
                  /\ m < n
                  /\ CategoryRank[ret[m].symbol_name] < CategoryRank[ret[n].symbol_name]
                  /\ ret[m].line_start > ret[n].line_start
            /\ \E ln \in 1..Len(split(calls[c].content)) : Len(ElemsAt(ret, "FLOW", ln)) = 2
            /\ \E n \in DOMAIN ret : ret[n].symbol_name = "IMPACT"

\* The indices of the patterns of the list that match the line.
Matching(patterns, line) == {p \in 1..Len(patterns) : search(patterns[p], line, TRUE) # NoMatch}

\* For one category (DECISION or IMPACT): a line has an element iff some
\* pattern of the list matches it, only one, named by the match of the
\* lowest-indexed matching pattern.
FirstPatternWins(sym, c) ==
    LET lines == split(calls[c].content)
    IN  \A ln \in 1..Len(lines) :
            LET es == ElemsAt(calls[c].returned, sym, ln)
                hits == Matching(CategoryPatterns[sym], lines[ln])
            IN  IF hits = {} THEN es = <<>>
                ELSE /\ Len(es) = 1
                     /\ es[1].name = group0(lines[ln], search(CategoryPatterns[sym][Min(hits)], lines[ln], TRUE))

\* C8. First-pattern-wins for Decision and Impact.
C8_FirstPatternWins ==
    \A c \in DOMAIN calls : FirstPatternWins("DECISION", c) /\ FirstPatternWins("IMPACT", c)

\* 'The court finds the defendant guilty': the court-finds pattern and the
\* guilty pattern both match, and the one DECISION element is "court finds".
C8_Witness ==
    \E c \in DOMAIN calls :
        /\ calls[c].content = "The court finds the defendant guilty"
        /\ {2, 3} \subseteq Matching(decision_patterns, calls[c].content)
        /\ Names(ElemsAt(calls[c].returned, "DECISION", 1)) = <<"court finds">>

\* C9. For every line, the FLOW elements of the line are, in pattern-list
\* order, one per flow pattern that occurs on the line, named by the first
\* (leftmost) occurrence of that pattern.
C9_FlowPolicy ==
    \A c \in DOMAIN calls :
        LET lines == split(calls[c].content)
        IN  \A ln \in 1..Len(lines) :
                Names(ElemsAt(calls[c].returned, "FLOW", ln)) = FirstMatches(flow_patterns, lines[ln])

\* A line on which the modal-verb pattern occurs twice and that has one
\* FLOW element for it, named by the first occurrence.
C9_Witness ==
    \E c \in DOMAIN calls :
        LET line == split(calls[c].content)[1]
            found == finditer(flow_patterns[1], line, TRUE)
        IN  /\ Len(found) = 2
            /\ found[1].start < found[2].start
            /\ Len(SelectSeq(ElemsAt(calls[c].returned, "FLOW", 1),
                             LAMBDA e : e.name = group0(line, found[1]))) = 1
            /\ Len(SelectSeq(ElemsAt(calls[c].returned, "FLOW", 1),
                             LAMBDA e : e.name = group0(line, found[2]))) = 0

\* The three structure patterns as the specification lists them: the
\* heading and the '§' pattern match anywhere in the line, the numbered
\* item at its start.
catalog_structure_patterns ==
    << Cat(<<Words(<<"ARTICLE", "SECTION", "CHAPTER", "TITLE">>), Plus(Space),
             Alt(<<Plus(In({"I", "V", "X", "L", "C", "D", "M"})), Plus(Digit)>>)>>),
       Cat(<<Lit("§"), Star(Space), Plus(Digit)>>),
       Cat(<<Bol, Plus(Digit), Lit("."), Star(Space), In(UpperChars), Star(NotIn({"."}))>>) >>

\* C10 as stated: a line has one STRUCTURE element for each of the three
\* catalog patterns that matches it, the first two anywhere in the line.
C10_AsStated ==
    \A c \in DOMAIN calls :
        LET lines == split(calls[c].content)
        IN  \A ln \in 1..Len(lines) :
                Len(ElemsAt(calls[c].returned, "STRUCTURE", ln))
                    = Cardinality(Matching(catalog_structure_patterns, lines[ln]))

\* C10 amended. A line has one STRUCTURE element for each structure
\* pattern that matches at the start of the trimmed line, named by that
\* match; the three patterns exclude one another there, so a line has at
\* most one STRUCTURE element.
C10_StructurePolicy ==
    \A c \in DOMAIN calls :
        LET lines == split(calls[c].content)
        IN  \A ln \in 1..Len(lines) :
                LET es == ElemsAt(calls[c].returned, "STRUCTURE", ln)
                    hits == {p \in 1..Len(catalog_structure_patterns) :
                               Match(catalog_structure_patterns[p], strip(lines[ln]), 1, TRUE) # <<>>}
                IN  /\ Len(es) = Cardinality(hits)
                    /\ Len(es) <= 1
                    /\ \A p \in hits :
                          es[1].name = SubSeq(strip(lines[ln]), 1,
                                              Head(Match(catalog_structure_patterns[p], strip(lines[ln]), 1, TRUE)) - 1)

\* A line with leading white space that opens with a numbered item and
\* mentions SECTION 5 and § 12 further on: it has the one element of the
\* numbered item.
C10_Witness ==
    \E c \in DOMAIN calls :
        LET lines == split(calls[c].content)
        IN  \E ln \in 1..Len(lines) :
                /\ lines[ln] # strip(lines[ln])
                /\ Cardinality(Matching(catalog_structure_patterns, strip(lines[ln]))) = 3
                /\ Len(ElemsAt(calls[c].returned, "STRUCTURE", ln)) = 1

\* The scoring function of each category.
CategoryScore(sym, text) ==
    CASE sym = "STRUCTURE" -> _calculate_structural_complexity(text)
      [] sym = "FLOW" -> _calculate_flow_complexity(text)
      [] sym = "DECISION" -> _calculate_decision_complexity(text)
      [] sym = "IMPACT" -> _calculate_impact_complexity(text)

\* C11. Whole-line scoring: the elements one category extractor emits from
\* one line carry the same complexity_score, the score of the entire line;
\* 'The tenant must vacate within 30 days' yields exactly two FLOW elements,
\* both with score 4.
C11_WholeLineScoring ==
    \A c \in DOMAIN calls :
        LET ret == calls[c].returned
            lines == split(calls[c].content)
        IN  /\ \A m, n \in DOMAIN ret :
                  (ret[m].symbol_name = ret[n].symbol_name /\ ret[m].line_start = ret[n].line_start)
                      => ret[m].complexity_score = ret[n].complexity_score
            /\ \A n \in DOMAIN ret :
                  ret[n].complexity_score = CategoryScore(ret[n].symbol_name, lines[ret[n].line_start])
            /\ \A ln \in 1..Len(lines) :
                  lines[ln] = "The tenant must vacate within 30 days"
                      => /\ Len(ElemsAt(ret, "FLOW", ln)) = 2
                         /\ \A k \in 1..2 : ElemsAt(ret, "FLOW", ln)[k].complexity_score = 4

\* The two FLOW elements of 'The tenant must vacate within 30 days': their
\* matched texts differ and would score differently on their own.
C11_Witness ==
    \E c \in DOMAIN calls :
        LET es == ElemsAt(calls[c].returned, "FLOW", 1)
        IN  /\ split(calls[c].content)[1] = "The tenant must vacate within 30 days"
            /\ Names(es) = <<"must vacate", "within 30 days">>
            /\ es[1].complexity_score = 4 /\ es[2].complexity_score = 4
            /\ _calculate_flow_complexity(es[1].name) # _calculate_flow_complexity(es[2].name)

\* C12. process_text never fails: its result has no 'error' key, its
\* total_elements and symbol_distribution count the listed elements, and the
\* list is complete: every line that a pattern of a category matches has an
\* element of that category.  For the empty text the list is empty,
\* total_elements and every symbol_distribution count are 0 and
\* domain_distribution is empty.
C12_NeverFails ==
    outcome.op = "process_text" =>
        LET result == outcome.result
            lines == split(outcome.text)
        IN  /\ "error" \notin DOMAIN result
            /\ result.analysis_summary.total_elements = Len(result.elements)
            /\ \A n \in 1..Len(SymbolOrder) :
                  DictGet(result.analysis_summary.symbol_distribution, SymbolOrder[n], -1)
                      = Len(SelectSeq(result.elements, LAMBDA e : e.symbol_name = SymbolOrder[n]))
            /\ \A ln \in 1..Len(lines), n \in 1..Len(SymbolOrder) :
                  Matching(CategoryPatterns[SymbolOrder[n]], Subject(SymbolOrder[n], lines[ln])) # {}
                      => \E k \in 1..Len(result.elements) :
                            result.elements[k].line = ln /\ result.elements[k].symbol_name = SymbolOrder[n]
            /\ outcome.text = "" =>
                  /\ result.elements = <<>>
                  /\ result.analysis_summary.total_elements = 0
                  /\ \A n \in 1..Len(SymbolOrder) :
                        DictGet(result.analysis_summary.symbol_distribution, SymbolOrder[n], -1) = 0
                  /\ result.analysis_summary.domain_distribution = <<>>

\* process_text has returned the report of the empty text.
C12_Witness ==
    /\ outcome.op = "process_text"
    /\ outcome.text = ""
    /\ "analysis_summary" \in DOMAIN outcome.result
    /\ outcome.result.analysis_summary.total_elements = 0
    /\ outcome.result.analysis_summary.document_length = 0

\* The positions of line at which one of the (lower-case) words ws stands as
\* a whole word, in any letter case.
WordOccurrences(line, ws) ==
    LET low == lower(line)
    IN  {i \in 1..Len(line) :
           \E w \in ws : /\ StartsAt(low, w, i)
                         /\ ~IsWordAt(line, i - 1)
                         /\ ~IsWordAt(line, i + Len(w))}

\* Whether the line has a digit followed by a dot.
HasDigitsDot(line) ==
    \E i \in 1..(Len(line) - 1) : CharAt(line, i) \in DigitChars /\ CharAt(line, i + 1) = "."

\* The structure tiers as the claim states them.
StructureTier(line) ==
    IF WordOccurrences(line, {"title", "chapter"}) # {} THEN 4
    ELSE IF WordOccurrences(line, {"article", "section"}) # {} THEN 3
    ELSE IF contains(line, "§") \/ HasDigitsDot(line) THEN 2
    ELSE 1

\* C13. The structure score of a line is 4 if it has the whole word TITLE
\* or CHAPTER (in any case), otherwise 3 if it has ARTICLE or SECTION,
\* otherwise 2 if it has '§' or digits followed by a dot, otherwise 1; every
\* STRUCTURE element carries that score of its line, and the element of
\* 'ARTICLE I - Definitions' is named 'ARTICLE I' and scores 3.
C13_StructureTiers ==
    \A c \in DOMAIN calls :
        LET ret == calls[c].returned
            lines == split(calls[c].content)
        IN  /\ \A ln \in 1..Len(lines) :
                  _calculate_structural_complexity(lines[ln]) = StructureTier(lines[ln])
            /\ \A n \in DOMAIN ret :
                  ret[n].symbol_name = "STRUCTURE"
                      => ret[n].complexity_score = StructureTier(lines[ret[n].line_start])
            /\ \A ln \in 1..Len(lines) :
                  lines[ln] = "ARTICLE I - Definitions"
                      => /\ Names(ElemsAt(ret, "STRUCTURE", ln)) = <<"ARTICLE I">>
                         /\ ElemsAt(ret, "STRUCTURE", ln)[1].complexity_score = 3

\* A STRUCTURE element of a line with both CHAPTER and SECTION, scored 4.
C13_Witness ==
    \E c \in DOMAIN calls :
        \E n \in DOMAIN calls[c].returned :
            LET e == calls[c].returned[n]
                line == split(calls[c].content)[e.line_start]
            IN  /\ e.symbol_name = "STRUCTURE"
                /\ WordOccurrences(line, {"chapter"}) # {}
                /\ WordOccurrences(line, {"section"}) # {}
                /\ e.complexity_score = 4

\* The last position of the longest run of characters of the set chars that
\* starts at position i of line (i - 1 when there is none).
RunEnd(line, i, chars) ==
    Min({j \in i..(Len(line) + 1) : j = Len(line) + 1 \/ CharAt(line, j) \notin chars}) - 1

\* The word that starts at position i of line, in lower case.
WordFrom(line, i) == lower(SubSeq(line, i, RunEnd(line, i, WordChars)))

\* The positions at which digits begin that stand at the start of a word
\* and are followed by white space (at least one character if spaced, any
\* number otherwise) and then by one of the words units.
NumberedUnits(line, units, spaced) ==
    {i \in 1..Len(line) :
        /\ CharAt(line, i) \in DigitChars
        /\ ~IsWordAt(line, i - 1)
        /\ LET d == RunEnd(line, i, DigitChars)
               e == RunEnd(line, d + 1, SpaceChars)
           IN  /\ spaced => e > d
               /\ WordFrom(line, e + 1) \in units}

ModalVerbs == {"shall", "must", "may", "should", "will"}
TimeUnits == {"day", "days", "week", "weeks", "month", "months", "year", "years"}

\* C14. For every line the flow score is min(15, 1 + M + 2 * T): M counts
\* the occurrences of the modal verbs shall, must, may, should, will in any
\* case, T the phrases '<digits> <day|week|month|year>(s)'; every FLOW
\* element carries that score of its line.
C14_FlowFormula ==
    \A c \in DOMAIN calls :
        LET ret == calls[c].returned
            lines == split(calls[c].content)
            formula(line) == min(15, 1 + Cardinality(WordOccurrences(line, ModalVerbs))
                                       + 2 * Cardinality(NumberedUnits(line, TimeUnits, TRUE)))
        IN  /\ \A ln \in 1..Len(lines) : _calculate_flow_complexity(lines[ln]) = formula(lines[ln])
            /\ \A n \in DOMAIN ret :
                  ret[n].symbol_name = "FLOW" => ret[n].complexity_score = formula(lines[ret[n].line_start])

\* A FLOW element of a line with two modal verbs and one time constraint,
\* scored 1 + 2 + 2.
C14_Witness ==
    \E c \in DOMAIN calls :
        \E n \in DOMAIN calls[c].returned :
            LET e == calls[c].returned[n]
                line == split(calls[c].content)[e.line_start]
            IN  /\ e.symbol_name = "FLOW"
                /\ Cardinality(WordOccurrences(line, ModalVerbs)) = 2
                /\ Cardinality(NumberedUnits(line, TimeUnits, TRUE)) = 1
                /\ e.complexity_score = 5

Conditionals == {"if", "when", "unless", "provided", "except"}
Connectives == {"and", "or", "but", "however", "nevertheless"}

\* C15. For every line the decision score is min(20, 2 + 2 * C + L): C
\* counts the occurrences of if, when, unless, provided, except, L those of
\* and, or, but, however, nevertheless; every DECISION element carries that
\* score of its line.
C15_DecisionFormula ==
    \A c \in DOMAIN calls :
        LET ret == calls[c].returned
            lines == split(calls[c].content)
            formula(line) == min(20, 2 + 2 * Cardinality(WordOccurrences(line, Conditionals))
                                       + Cardinality(WordOccurrences(line, Connectives)))
        IN  /\ \A ln \in 1..Len(lines) : _calculate_decision_complexity(lines[ln]) = formula(lines[ln])
            /\ \A n \in DOMAIN ret :
                  ret[n].symbol_name = "DECISION" => ret[n].complexity_score = formula(lines[ret[n].line_start])

\* A DECISION element of a line with one conditional and one connective,
\* scored 2 + 2 + 1.
C15_Witness ==
    \E c \in DOMAIN calls :
        \E n \in DOMAIN calls[c].returned :
            LET e == calls[c].returned[n]
                line == split(calls[c].content)[e.line_start]
            IN  /\ e.symbol_name = "DECISION"
                /\ Cardinality(WordOccurrences(line, Conditionals)) = 1
                /\ Cardinality(WordOccurrences(line, Connectives)) = 1
                /\ e.complexity_score = 5

\* The positions of a '$' followed by a digit or a comma.
DollarAmounts(line) ==
    {i \in 1..(Len(line) - 1) : CharAt(line, i) = "$" /\ CharAt(line, i + 1) \in DigitChars \cup {","}}

\* Whether position i lies within the digits and commas that follow a '$'.
InDollarAmount(line, i) ==
    \E d \in 1..(i - 1) :
        CharAt(line, d) = "$" /\ \A k \in (d + 1)..i : CharAt(line, k) \in DigitChars \cup {","}

\* The monetary amounts of a line: '$' amounts, and '<digits> dollar(s)'
\* phrases whose digits are not part of a '$' amount.
MonetaryAmounts(line) ==
    Cardinality(DollarAmounts(line))
    + Cardinality({i \in NumberedUnits(line, {"dollar", "dollars"}, FALSE) : ~InDollarAmount(line, i)})

SeverityWords == {"severe", "significant", "major", "critical", "substantial"}

\* Each severity word occurs at most once on the line, and only as a whole
\* word.
SeverityWordsPlain(line) ==
    \A w \in SeverityWords :
        /\ count(lower(line), w) <= 1
        /\ count(lower(line), w) = Cardinality(WordOccurrences(line, {w}))

\* C16. For every line on which each severity word occurs at most once and
\* only as a whole word, the impact score is min(25, 3 + 2 * S + 3 * A): S
\* counts the severity words on the line, A its monetary amounts; every
\* IMPACT element of such a line carries that score.
C16_ImpactFormula ==
    \A c \in DOMAIN calls :
        LET ret == calls[c].returned
            lines == split(calls[c].content)
            formula(line) == min(25, 3 + 2 * Cardinality(WordOccurrences(line, SeverityWords))
                                       + 3 * MonetaryAmounts(line))
        IN  /\ \A ln \in 1..Len(lines) :
                  SeverityWordsPlain(lines[ln]) => _calculate_impact_complexity(lines[ln]) = formula(lines[ln])
            /\ \A n \in DOMAIN ret :
                  (ret[n].symbol_name = "IMPACT" /\ SeverityWordsPlain(lines[ret[n].line_start]))
                      => ret[n].complexity_score = formula(lines[ret[n].line_start])

\* An IMPACT element of a line with one severity word, a '$' amount and a
\* 'dollars' phrase, scored 3 + 2 + 6.
C16_Witness ==
    \E c \in DOMAIN calls :
        \E n \in DOMAIN calls[c].returned :
            LET e == calls[c].returned[n]
                line == split(calls[c].content)[e.line_start]
            IN  /\ e.symbol_name = "IMPACT"
                /\ SeverityWordsPlain(line)
                /\ Cardinality(WordOccurrences(line, SeverityWords)) = 1
                /\ Cardinality(DollarAmounts(line)) = 1
                /\ MonetaryAmounts(line) = 2
                /\ e.complexity_score = 11

\* sum(d.values())
DictSum(d) == SumSeq([n \in 1..Len(d) |-> d[n].val])

\* The scores of each bucket as the claim states them.
BucketRange ==
    [simple |-> 0..3, moderate |-> 4..8, complex |-> 9..15, very_complex |-> 16..25]

\* C17. In the report of analyze_directory every element is counted in
\* exactly one of the buckets simple (score <= 3), moderate (4..8), complex
\* (9..15), very_complex (> 15), by its score alone; the bucket counts, the
\* per-category counts and the per-domain counts each sum to total_elements.
\* In the report of process_text the per-category and the per-domain counts
\* sum to total_elements.
C17_ComplexityBuckets ==
    /\ outcome.op = "analyze_directory" =>
          LET summary == outcome.result.summary
              elements == outcome.result.elements
              buckets == summary.complexity_distribution
          IN  /\ \A n \in 1..Len(buckets) : buckets[n].key \in DOMAIN BucketRange
              /\ \A m, n \in 1..Len(buckets) : buckets[m].key = buckets[n].key => m = n
              /\ \A b \in DOMAIN BucketRange :
                    DictGet(buckets, b, 0)
                        = Cardinality({n \in 1..Len(elements) : elements[n].complexity_score \in BucketRange[b]})
              /\ summary.total_elements = Len(elements)
              /\ DictSum(buckets) = summary.total_elements
              /\ DictSum(summary.symbol_distribution) = summary.total_elements
              /\ DictSum(summary.legal_domain_distribution) = summary.total_elements
    /\ outcome.op = "process_text" =>
          LET summary == outcome.result.analysis_summary
          IN  /\ DictSum(summary.symbol_distribution) = summary.total_elements
              /\ DictSum(summary.domain_distribution) = summary.total_elements

\* A directory report whose four buckets are all occupied, with an IMPACT
\* element above 15 and elements of two categories sharing a bucket.
C17_Witness ==
    /\ outcome.op = "analyze_directory"
    /\ \A b \in DOMAIN BucketRange : DictGet(outcome.result.summary.complexity_distribution, b, 0) > 0
    /\ \E m, n \in 1..Len(outcome.result.elements) :
          LET e == outcome.result.elements[m]
              f == outcome.result.elements[n]
          IN  /\ e.symbol_name # f.symbol_name
              /\ Bucket(e.complexity_score) = Bucket(f.complexity_score)
    /\ \E n \in 1..Len(outcome.result.elements) :
          /\ outcome.result.elements[n].symbol_name = "IMPACT"
          /\ outcome.result.elements[n].complexity_score > 15

\* The text with every CR LF and every lone CR replaced by LF.
ToLF(text) ==
    IF text = "" THEN ""
    ELSE Flatten([i \in 1..Len(text) |->
                    IF CharAt(text, i) # "\r" THEN CharAt(text, i)
                    ELSE IF i < Len(text) /\ CharAt(text, i + 1) = "\n" THEN ""
                    ELSE "\n"])

\* What the claim compares of a list of elements.
LineView(es) ==
    [n \in 1..Len(es) |->
       [symbol_name |-> es[n].symbol_name, line_start |-> es[n].line_start, name |-> es[n].name,
        content_snippet |-> es[n].content_snippet, complexity_score |-> es[n].complexity_score]]

\* C18. A text whose line breaks are CR LF or lone CRs yields the elements
\* of the same text with LF line breaks: as many, with the same line
\* numbers, matched texts, snippets and scores.
C18_LineBreakConventions ==
    \A c \in DOMAIN calls :
        contains(calls[c].content, "\r")
            => LineView(calls[c].returned) = LineView(Returned(calls[c].file_path, ToLF(calls[c].content)))

\* Whether the document at a path loads: it exists, is not above
\* max_document_size and decodes.
Loads(path) ==
    /\ FileAt(path) # 0
    /\ Files[FileAt(path)].size <= max_document_size
    /\ Files[FileAt(path)].utf8

\* Every document of the list has its result in batch_results, a failure
\* for one that does not load and, for one that loads, the report of its
\* elements that process_document gives for it alone.
EveryDocumentAttempted(document_paths, result) ==
    \A n \in 1..Len(document_paths) :
        LET path == document_paths[n]
            entry == DictGet(result.batch_results, path, [status |-> "absent"])
        IN  IF Loads(path)
            THEN /\ "error" \notin DOMAIN entry /\ "analysis_summary" \in DOMAIN entry
                 /\ entry = process_document(path)
                 /\ entry.source = path
                 /\ entry.analysis_summary.total_elements
                       = Len(Returned(path, Files[FileAt(path)].content))
            ELSE "error" \in DOMAIN entry /\ entry.status = "failed"

\* C19 as stated: every document of the list is attempted, and
\* successful_analyses + failed_analyses = total_documents = the number of
\* paths in the list.
C19_AsStated ==
    outcome.op = "batch_process" =>
        LET summary == outcome.result.batch_summary
        IN  /\ EveryDocumentAttempted(outcome.document_paths, outcome.result)
            /\ summary.successful_analyses + summary.failed_analyses = summary.total_documents
            /\ summary.total_documents = Len(outcome.document_paths)

\* C19 amended. Every document of the list is attempted, whatever failed
\* before it, and successful_analyses + failed_analyses = total_documents =
\* the number of distinct paths in the list; the successful ones are the
\* distinct paths that load.
C19_BatchIsolation ==
    outcome.op = "batch_process" =>
        LET summary == outcome.result.batch_summary
            distinct == {outcome.document_paths[n] : n \in 1..Len(outcome.document_paths)}
        IN  /\ EveryDocumentAttempted(outcome.document_paths, outcome.result)
            /\ summary.successful_analyses + summary.failed_analyses = summary.total_documents
            /\ summary.total_documents = Cardinality(distinct)
            /\ summary.successful_analyses = Cardinality({path \in distinct : Loads(path)})

\* A batch of three paths: a document that does not exist, then twice a
\* document that loads and has elements; two documents are counted, one
\* failed and one successful.
C19_Witness ==
    /\ outcome.op = "batch_process"
    /\ Len(outcome.document_paths) = 3
    /\ ~Loads(outcome.document_paths[1])
    /\ Loads(outcome.document_paths[2])
    /\ outcome.document_paths[3] = outcome.document_paths[2]
    /\ outcome.result.batch_summary.total_documents = 2
    /\ outcome.result.batch_summary.failed_analyses = 1
    /\ outcome.result.batch_summary.successful_analyses = 1
    /\ outcome.result.batch_summary.aggregate_statistics.total_legal_elements > 0

\* The kind of failure loading the document at a path meets, in the order
\* in which process_document checks.
LoadFailure(path) ==
    IF FileAt(path) = 0 THEN "NotFound"
    ELSE IF Files[FileAt(path)].size > max_document_size THEN "TooLarge"
    ELSE IF ~Files[FileAt(path)].utf8 THEN "DecodeError"
    ELSE "none"

\* The files of a directory that analyze_directory opens and whose reading
\* fails.
UnreadableFiles(directory) ==
    {k \in OnDisk : Files[k].dir = directory /\ Files[k].ext \in {".txt", ".md"} /\ ~Files[k].utf8}

\* C20. A failure to load a document reaches the caller as an error of its
\* kind: process_document returns an error result, never an analysis, that
\* differs from the result of every document failing in another way; and
\* the report of analyze_directory for a directory with a file that cannot
\* be read differs from the report it gives when that file is not there.
C20_TypedLoaderErrors ==
    /\ (outcome.op = "process_document" /\ LoadFailure(outcome.document_path) # "none") =>
          /\ "error" \in DOMAIN outcome.result
          /\ "analysis_summary" \notin DOMAIN outcome.result
          /\ \A other \in DocumentPaths :
                LoadFailure(other) # LoadFailure(outcome.document_path)
                    => process_document(other) # outcome.result
    /\ outcome.op = "analyze_directory" =>
          \A k \in UnreadableFiles(outcome.directory) :
              outcome.result # analyze_directory(OnDisk \ {k}, outcome.directory).report

\* Thread t runs analyze_legal_document, or has returned from it.
InDocument(t) == threads[t].op = "analyze_legal_document"

\* C21. No shared-state mutation by extraction: no statement of
\* analyze_legal_document changes self.elements or self.stats of any
\* instance (the pattern catalog is a constant), and however the statements
\* of the threads interleave, a call returns the list that the same call
\* returns when it runs alone.
C21_NoSharedStateMutation ==
    /\ [](\A t \in Threads :
            (InDocument(t) /\ threads[t].pc = "done")
                => threads[t].returned =
                       Returned(Files[threads[t].file].path, Files[threads[t].file].content))
    /\ [][\A t \in Threads :
            (threads'[t] # threads[t] /\ threads'[t].op = "analyze_legal_document")
                => (self_elements' = self_elements /\ self_stats' = self_stats)]_vars

\* Two calls for different documents are under way on one instance at the
\* same time, both past their first extractor, one of them about to return
\* a non-empty list.
C21_Witness ==
    \E t, u \in Threads :
        /\ t # u
        /\ InDocument(t) /\ InDocument(u)
        /\ threads[t].instance = threads[u].instance
        /\ threads[t].file # threads[u].file
        /\ threads[t].pc = "return" /\ threads[t].elements # <<>>
        /\ threads[u].pc \in {"flows", "decisions", "impacts"}

\* The report the thread's analyze_directory call returns when no other
\* call runs on its instance.
ReportAlone(t) == analyze_directory(OnDisk, threads[t].directory).report

\* Another thread has called analyze_directory on the instance thread t
\* uses.
SharesAccumulators(t) ==
    \E u \in Threads :
        /\ u # t
        /\ threads[u].op = "analyze_directory"
        /\ threads[u].instance = threads[t].instance

\* C22. The directory accumulator is not safe for concurrent use: the
\* report of analyze_directory is built from self.elements and self.stats
\* as they stand when the call returns, whatever other calls have done to
\* them; a call returns a report other than the one it returns alone only
\* when another analyze_directory call was made on the same instance, and
\* there are interleavings of two calls where it does.
C22_SharedDirectoryAccumulator ==
    /\ [](\A t \in Threads :
            (InDirectory(t, "done") /\ threads[t].returned # ReportAlone(t))
                => SharesAccumulators(t))
    /\ [][\A t \in Threads :
            (InDirectory(t, "report") /\ threads'[t].pc = "done")
                => threads'[t].returned =
                       _generate_legal_report(self_elements[threads[t].instance],
                                              self_stats[threads[t].instance])]_vars

\* A call has returned a report that holds an element of a file of the
\* other call's directory, lacks an element of its own, and counts the
\* files differently from the report it returns alone.
C22_Witness ==
    \E t \in Threads :
        /\ InDirectory(t, "done")
        /\ \E n \in 1..Len(threads[t].returned.elements) :
              Files[FileAt(threads[t].returned.elements[n].file_path)].dir # threads[t].directory
        /\ \E n \in 1..Len(ReportAlone(t).elements) :
              \A m \in 1..Len(threads[t].returned.elements) :
                  threads[t].returned.elements[m] # ReportAlone(t).elements[n]
        /\ threads[t].returned.summary.file_stats # ReportAlone(t).summary.file_stats

\* The per-document reports of a batch result whose analysis succeeded.
Succeeded(result) ==
    SelectSeq([n \in 1..Len(result.batch_results) |-> result.batch_results[n].val],
              LAMBDA r : "error" \notin DOMAIN r)

\* The sum, over these reports, of the count each gives a key in the
\* distribution dist of its summary ("symbol_distribution" or
\* "domain_distribution").
SumOfCounts(result, dist, key) ==
    SumSeq([n \in 1..Len(Succeeded(result)) |->
              DictGet(Succeeded(result)[n].analysis_summary[dist], key, 0)])

\* The aggregate statistics of a batch result are the sums over its
\* successful per-document reports.
IsSumOfReports(result) ==
    LET agg == result.batch_summary.aggregate_statistics
    IN  /\ agg.total_legal_elements =
              SumSeq([n \in 1..Len(Succeeded(result)) |->
                        Succeeded(result)[n].analysis_summary.total_elements])
        /\ \A key \in {SymbolOrder[n] : n \in 1..Len(SymbolOrder)} :
              DictGet(agg.symbol_distribution, key, 0) = SumOfCounts(result, "symbol_distribution", key)
        /\ \A key \in {DomainOrder[n] : n \in 1..Len(DomainOrder)} \cup {"unknown", "general"} :
              DictGet(agg.domain_distribution, key, 0) = SumOfCounts(result, "domain_distribution", key)
        /\ \A n \in 1..Len(agg.symbol_distribution) :
              agg.symbol_distribution[n].key \in {SymbolOrder[m] : m \in 1..Len(SymbolOrder)}
        /\ \A n \in 1..Len(agg.domain_distribution) :
              agg.domain_distribution[n].key \in {DomainOrder[m] : m \in 1..Len(DomainOrder)}

\* Two batch results have the same aggregate counts, key by key.
SameAggregate(r1, r2) ==
    LET a1 == r1.batch_summary.aggregate_statistics
        a2 == r2.batch_summary.aggregate_statistics
    IN  /\ a1.total_legal_elements = a2.total_legal_elements
        /\ \A key \in {SymbolOrder[n] : n \in 1..Len(SymbolOrder)} :
              DictGet(a1.symbol_distribution, key, 0) = DictGet(a2.symbol_distribution, key, 0)
        /\ \A key \in {DomainOrder[n] : n \in 1..Len(DomainOrder)} :
              DictGet(a1.domain_distribution, key, 0) = DictGet(a2.domain_distribution, key, 0)

\* C23. Batch aggregation is an order-independent sum: total_legal_elements
\* and every symbol and domain count of the batch summary are the sums of
\* the values in the reports of the documents analysed successfully, failed
\* documents adding nothing, and they are the same for every permutation of
\* the list of paths.
C23_BatchAggregation ==
    outcome.op = "batch_process" =>
        /\ IsSumOfReports(outcome.result)
        /\ \A f \in Permutations(1..Len(outcome.document_paths)) :
              SameAggregate(outcome.result,
                            BatchResults[[n \in 1..Len(outcome.document_paths) |->
                                            outcome.document_paths[f[n]]]])

\* A batch of three different paths whose first document fails and whose
\* other two succeed with elements of a common symbol.
C23_Witness ==
    /\ outcome.op = "batch_process"
    /\ Len(outcome.result.batch_results) = 3
    /\ "error" \in DOMAIN outcome.result.batch_results[1].val
    /\ Len(Succeeded(outcome.result)) = 2
    /\ \E key \in {SymbolOrder[n] : n \in 1..Len(SymbolOrder)} :
          \A n \in 1..2 : DictGet(Succeeded(outcome.result)[n].analysis_summary.symbol_distribution, key, 0) > 0

\* The concepts of the symbol map that occur in the lower-cased text, in
\* the order of the map.
ConceptsIn(text) ==
    SelectSeq(_initialize_symbol_mapping, LAMBDA entry : contains(lower(text), entry.key))

\* The double next above d, d > 0.
NextUp(d) == ExactSum(d, UnitAt(LastDigit(d)))

\* What encode keeps and finds: original_text is the text, and there is
\* exactly one encoded symbol for each concept occurring in the lower-cased
\* text; the empty text has none and confidence 0.0.
EncodesConcepts(text, result) ==
    /\ result.original_text = text
    /\ result.encoded_symbols = [n \in 1..Len(ConceptsIn(text)) |-> ConceptsIn(text)[n].val]
    /\ FloatLeq(FloatZero, result.confidence_score)
    /\ text = "" => result.encoded_symbols = <<>> /\ result.confidence_score = FloatZero

\* C24 as stated: the result of encode keeps the text, has one symbol for
\* each concept occurring in it, and its confidence_score is
\* min(0.1 * number of encoded symbols, 1.0).
C24_AsStated ==
    outcome.op = "encode" =>
        /\ EncodesConcepts(outcome.text, outcome.result)
        /\ outcome.result.confidence_score =
              FloatMin(FloatTimes(Len(outcome.result.encoded_symbols), Float_0_1), Float_1_0)

\* C24. The result of encode keeps original_text, has exactly one encoded
\* symbol for each concept of the symbol map occurring in the lower-cased
\* text, and a confidence_score >= 0 that is the float 0.1 * number of
\* encoded symbols or the float next below it (0.1 is added once per
\* symbol, and each addition rounds), never above 1.0; the empty text has
\* no encoded symbols and confidence 0.0.
C24_EncodeResult ==
    outcome.op = "encode" =>
        /\ EncodesConcepts(outcome.text, outcome.result)
        /\ FloatLeq(outcome.result.confidence_score, Float_1_0)
        /\ \/ outcome.result.confidence_score =
                 FloatTimes(Len(outcome.result.encoded_symbols), Float_0_1)
           \/ /\ outcome.result.confidence_score # FloatZero
              /\ NextUp(outcome.result.confidence_score) =
                    FloatTimes(Len(outcome.result.encoded_symbols), Float_0_1)

\* encode has returned for a text in which six concepts occur, one of them
\* twice and one in upper case: the confidence is the float below 0.1 * 6.
C24_Witness ==
    /\ outcome.op = "encode"
    /\ Len(outcome.result.encoded_symbols) = 6
    /\ outcome.result.confidence_score #
          FloatTimes(Len(outcome.result.encoded_symbols), Float_0_1)
    /\ outcome.text # lower(outcome.text)
    /\ count(lower(outcome.text), "law") = 2

\* C25. The category encode gives a text is one of criminal_law,
\* commercial_law, constitutional_law and general_law: criminal_law when
\* the lower-cased text holds a criminal keyword, else commercial_law when
\* it holds a commercial keyword, else constitutional_law when it holds a
\* constitutional keyword, else general_law.
C25_LegalCategory ==
    outcome.op = "encode" =>
        LET text == lower(outcome.text)
            criminal == any_in(<<"criminal", "crime", "prosecution">>, text)
            commercial == any_in(<<"contract", "agreement", "commercial">>, text)
            constitutional == any_in(<<"constitution", "fundamental", "rights">>, text)
        IN  /\ outcome.result.legal_category \in Categories
            /\ criminal => outcome.result.legal_category = "criminal_law"
            /\ commercial /\ ~criminal => outcome.result.legal_category = "commercial_law"
            /\ constitutional /\ ~criminal /\ ~commercial =>
                  outcome.result.legal_category = "constitutional_law"
            /\ ~criminal /\ ~commercial /\ ~constitutional =>
                  outcome.result.legal_category = "general_law"

\* encode has returned commercial_law for a text that speaks of a contract
\* and of rights and holds no criminal keyword.
C25_Witness ==
    /\ outcome.op = "encode"
    /\ contains(outcome.text, "contract")
    /\ contains(outcome.text, "rights")
    /\ ~any_in(<<"criminal", "crime", "prosecution">>, lower(outcome.text))
    /\ outcome.result.legal_category = "commercial_law"

\* C26. When the Maya category and the symbolic domain are both
\* criminal_law, _fuse_analysis returns final_category criminal_law and
\* the confidence min(fusion_score + 0.2, 1.0), fusion_score being the mean
\* of the two confidences; it is above fusion_score whenever fusion_score
\* is below 1.0.  For all categories and all confidences in [0, 1] the
\* fused confidence is at most 1.0 and at least fusion_score.
C26_FusionBoost ==
    outcome.op = "_fuse_analysis" =>
        /\ outcome.result.fusion_score =
              FloatHalf(FloatAdd(outcome.maya_confidence, outcome.symbolic_confidence))
        /\ FloatLeq(outcome.result.confidence, Float_1_0)
        /\ FloatLeq(outcome.result.fusion_score, outcome.result.confidence)
        /\ outcome.maya_category = "criminal_law" /\ outcome.symbolic_domain = "criminal_law" =>
              /\ outcome.result.final_category = "criminal_law"
              /\ outcome.result.confidence =
                    FloatMin(FloatAdd(outcome.result.fusion_score, Float_0_2), Float_1_0)
              /\ outcome.result.fusion_score # Float_1_0 =>
                    outcome.result.confidence # outcome.result.fusion_score

\* _fuse_analysis has returned for two criminal_law inputs whose mean, below
\* 1.0, is so high that the boost is cut: the confidence is 1.0.
C26_Witness ==
    /\ outcome.op = "_fuse_analysis"
    /\ outcome.maya_category = "criminal_law"
    /\ outcome.symbolic_domain = "criminal_law"
    /\ outcome.result.fusion_score # Float_1_0
    /\ outcome.result.confidence = Float_1_0
    /\ outcome.result.confidence # FloatAdd(outcome.result.fusion_score, Float_0_2)

\* All five domain scores of a text are zero.
NoDomainScores(content) ==
    \A k \in 1..Len(DomainOrder) : DomainScore(DomainOrder[k], content) = 0

\* C27. _determine_legal_domain never answers 'general': for every text it
\* returns one of the five catalog domains, 'constitutional' when all five
\* scores are zero (the empty text included), and no element returned has
\* legal_domain 'general'.
C27_NeverGeneral ==
    \A c \in DOMAIN calls :
        IF NoDomainScores(calls[c].content)
        THEN /\ _determine_legal_domain(calls[c].content) = "constitutional"
             /\ \A n \in DOMAIN calls[c].returned :
                   calls[c].returned[n].legal_domain = "constitutional"
        ELSE /\ _determine_legal_domain(calls[c].content)
                   \in {"constitutional", "criminal", "civil", "commercial", "procedural"}
             /\ \A n \in DOMAIN calls[c].returned :
                   calls[c].returned[n].legal_domain # "general"

\* A document that is not empty, hits no keyword and no pattern of any
\* domain, and has elements: they carry the domain constitutional.
C27_Witness ==
    \E c \in DOMAIN calls :
        /\ NoDomainScores(calls[c].content)
        /\ calls[c].returned # <<>>
        /\ \A n \in DOMAIN calls[c].returned : calls[c].returned[n].legal_domain = "constitutional"

\* The structure patterns whose leftmost occurrence in the text is at its
\* start.
OpeningWith(text) ==
    {p \in 1..Len(catalog_structure_patterns) :
       search(catalog_structure_patterns[p], text, TRUE).start = 1}

\* C28. A line has a STRUCTURE element only when the trimmed line begins
\* with the match: the element's name is the opening of the trimmed line
\* and starts with a letter (heading), '§' or a digit (numbered item); a
\* line has such an element exactly when one of the three patterns occurs
\* at the start of the trimmed line, never more than one, and none when a
\* heading is referred to further on in the line only.
C28_StructureAtLineStart ==
    \A c \in DOMAIN calls :
        LET lines == split(calls[c].content)
        IN  \A ln \in 1..Len(lines) :
                LET es == ElemsAt(calls[c].returned, "STRUCTURE", ln)
                IN  /\ Len(es) <= 1
                    /\ (es # <<>>) <=> (OpeningWith(strip(lines[ln])) # {})
                    /\ \A n \in 1..Len(es) :
                          /\ es[n].name # ""
                          /\ StartsAt(strip(lines[ln]), es[n].name, 1)
                          /\ CharAt(es[n].name, 1) \in UpperChars \cup LowerChars \cup DigitChars \cup {"§"}

\* A line that refers to a heading further on, opens with none of the
\* three patterns and has no STRUCTURE element.
C28_Witness ==
    \E c \in DOMAIN calls :
        LET lines == split(calls[c].content)
        IN  \E ln \in 1..Len(lines) :
                /\ search(catalog_structure_patterns[1], strip(lines[ln]), TRUE).start > 1
                /\ OpeningWith(strip(lines[ln])) = {}
                /\ ElemsAt(calls[c].returned, "STRUCTURE", ln) = <<>>
                /\ calls[c].returned # <<>>

\* The severity words present in a line, in any letter case, as words or
\* inside longer words.
SeverityPresent(line) == {w \in SeverityWords : contains(lower(line), w)}

\* C29. Impact severity is counted by presence: each of the five severity
\* words adds 2 to the impact score of a line once, however often it occurs
\* and also when it occurs inside a longer word; the score of a line is
\* min(25, 3 + 2 * number of severity words present + 3 * monetary
\* amounts), the severity part is at most 10, and a line without monetary
\* amounts scores at most 13.  IMPACT elements carry the score of their
\* line.
C29_SeverityByPresence ==
    \A c \in DOMAIN calls :
        LET ret == calls[c].returned
            lines == split(calls[c].content)
        IN  /\ \A ln \in 1..Len(lines) :
                  /\ _calculate_impact_complexity(lines[ln])
                        = min(25, 3 + 2 * Cardinality(SeverityPresent(lines[ln]))
                                    + 3 * MonetaryAmounts(lines[ln]))
                  /\ 2 * Cardinality(SeverityPresent(lines[ln])) <= 10
                  /\ MonetaryAmounts(lines[ln]) = 0 => _calculate_impact_complexity(lines[ln]) <= 13
            /\ \A n \in DOMAIN ret :
                  ret[n].symbol_name = "IMPACT" =>
                      ret[n].complexity_score
                          = min(25, 3 + 2 * Cardinality(SeverityPresent(lines[ret[n].line_start]))
                                      + 3 * MonetaryAmounts(lines[ret[n].line_start]))

\* An IMPACT element of a line on which 'severe' occurs twice and
\* 'significant' inside a longer word only: it scores 3 + 2 + 2.
C29_Witness ==
    \E c \in DOMAIN calls :
        \E n \in DOMAIN calls[c].returned :
            LET e == calls[c].returned[n]
                line == split(calls[c].content)[e.line_start]
            IN  /\ e.symbol_name = "IMPACT"
                /\ count(lower(line), "severe") = 2
                /\ count(lower(line), "significant") = 1
                /\ WordOccurrences(line, {"significant"}) = {}
                /\ MonetaryAmounts(line) = 0
                /\ e.complexity_score = 7

\* C30. In the report of process_text, domain_distribution has at most one
\* key and its count is total_elements; primary_legal_domain is 'unknown'
\* exactly when no element was extracted, whatever domain keywords the
\* text holds, and otherwise it is the domain _determine_legal_domain
\* returns for the text.
C30_PrimaryDomain ==
    outcome.op = "process_text" =>
        LET summary == outcome.result.analysis_summary
        IN  /\ Len(summary.domain_distribution) <= 1
            /\ \A n \in 1..Len(summary.domain_distribution) :
                  /\ summary.domain_distribution[n].val = summary.total_elements
                  /\ summary.domain_distribution[n].key = summary.primary_legal_domain
            /\ (summary.primary_legal_domain = "unknown") <=> (summary.total_elements = 0)
            /\ (summary.total_elements = 0) <=> (summary.domain_distribution = <<>>)
            /\ summary.total_elements > 0 =>
                  summary.primary_legal_domain = _determine_legal_domain(outcome.text)

\* process_text has returned for a text that holds a domain keyword and
\* yields no element: the primary domain is 'unknown', not the domain of
\* the text.
C30_Witness ==
    /\ outcome.op = "process_text"
    /\ ~NoDomainScores(outcome.text)
    /\ outcome.result.analysis_summary.total_elements = 0
    /\ outcome.result.analysis_summary.primary_legal_domain = "unknown"

====
